---- MODULE Spec2Model ----
(***************************************************************************)
(* Model of the holi.tools peer-to-peer wire codec (packages/core/holi-p2p) *)
(* : the varint codec (varint.rs), the frame envelope codec and the typed  *)
(* payload codecs (frame.rs), and a stream receiver that drives decode_v1  *)
(* the way spec.md section 5 asks the transport layer to.                  *)
(*                                                                         *)
(* Number representation.  TLC's integers are 32-bit signed, so a u32 or a *)
(* u64 cannot be a TLC integer.  A w-bit unsigned integer is modelled as a *)
(* bit vector, a sequence of w bits whose element i+1 is bit i (bit 0 the  *)
(* least significant); the shifts, masks and ors of the source are carried out on the     *)
(* bits, and a result wider than w bits loses its high bits exactly as the *)
(* Rust operators on u32/u64 lose them.  Bytes (u8) and buffer lengths     *)
(* that are bounded by the model are plain naturals.  Buffer offsets are   *)
(* usize values: the crate is built for wasm32 (32-bit usize) and for      *)
(* native targets (64-bit usize), and an offset sum wraps or panics on the *)
(* former where it cannot on the latter.                                   *)
(***************************************************************************)
EXTENDS Integers, Sequences, FiniteSets, TLC

VARIABLES
    \* ---- the build ----
    usize       \* width of usize on the target: 32 (wasm32, the target of the
                \* wasm-p2p bindings) or 64 (native); fixed when the crate is built

VARIABLES
    \* ---- varint codec harness (varint.rs) ----
    vpc,        \* "idle" | "encoded" | "decoded" | "raw"
    vwidth,     \* 32 or 64: which of the two codecs the call used
    value,      \* the integer handed to encode_*_varint (bit vector)
    out,        \* the Vec<u8> `out` the encoder appended to
    base,       \* len(out) before the encoder was called
    vinput,     \* the byte slice handed to decode_*_varint
    vresult     \* what decode_*_varint returned

VARIABLES
    \* ---- frame codec harness (frame.rs) ----
    fpc,        \* "idle" | "built" | "called"
    sent,       \* the frames encoded so far, back to back, into `wire`
    wire,       \* the Vec<u8> `out` that encode_v1 appended to
    ends,       \* ends[i] = len(wire) after the i-th encode_v1 call
    how,        \* how the decoder's input was derived from `wire`
    finput,     \* the byte slice handed to decode_v1
    fmax,       \* the max_payload_len handed to decode_v1 (u32 bit vector)
    fresult     \* what decode_v1 (or the decode-and-advance loop) returned

VARIABLES
    \* ---- a stream receiver driving decode_v1 (spec.md section 5) ----
    conn,       \* "open" | "dropped"
    sframes,    \* the frames the sender has written to the stream
    swire,      \* their encodings, back to back: the bytes on the stream
    arrived,    \* how many bytes of swire have reached the receiver
    rbuf,       \* the receiver's buffer: bytes received and not yet consumed
    delivered   \* the frames the receiver has decoded, in order

VARIABLES
    \* ---- typed payload codec harness (frame.rs) ----
    ppc,        \* "idle" | "encoded" | "framed" | "decoded" | "raw"
    pkind,      \* the message kind whose codec is exercised
    pvalue,     \* the typed value handed to the encoder
    pwire,      \* the Vec<u8> the typed encoder returned
    pframe,     \* what decode_v1 returned for pwire
    ppayload,   \* the payload slice handed to the payload decoder
    presult     \* what the payload decoder returned

VARIABLES
    \* ---- threads calling the codec concurrently (frame.rs, varint.rs) ----
    tpc,        \* tpc[t]: the statement the call of thread t executes next
    tcall,      \* tcall[t]: the function thread t called, with its arguments
    tlocal,     \* tlocal[t]: the varint encoder's local `value` (bit vector)
    tret,       \* tret[t]: what the call of thread t returned
    heap        \* heap[b]: the bytes of buffer b; buffer t belongs to thread t

VARIABLES
    \* ---- calls of the wasm-p2p bindings (wasm-p2p/src/lib.rs) ----
    bpc,        \* "idle" | "sealed" | "resealed" | "opened" | "decoded"
    bfn,        \* the binding called last
    bkey,       \* the key bytes handed to the encrypting binding
    bnonce,     \* the nonce of the envelope: drawn by OsRng or handed in
    binner,     \* the inner frame handed to the encrypting binding (the frame
                \* and the length of its payload's filler, see InnerBytes)
    bsealed,    \* the error the encrypting binding returned, or the length of
                \* the envelope it returned (the envelope itself is Envelope)
    bsecond,    \* the nonce of a second encryption of binner under bkey
    btamper,    \* what happened to the envelope on its way to the receiver
    bopenkey,   \* the key bytes handed to decrypt_envelope_v1
    bbytes,     \* the peer's bytes handed to a decoding binding
    bresult     \* what that binding returned, and how far it got

VARIABLES
    \* ---- one AccessControlList (wasm-core/src/acl.rs) ----
    permissions,    \* HashMap<String, PeerPermission>
    aclops          \* the grant and revoke calls made so far, oldest first

VARIABLES
    \* ---- one InMemoryStorage shared by several threads (wasm-core/src/storage.rs) ----
    files,      \* HashMap<String, Vec<u8>> behind the mutex
    mutex,      \* the thread that holds the MutexGuard, or NoOwner
    spc,        \* spc[t]: "idle" | "locked" (inside a call, past lock())
    scall,      \* scall[t]: the call thread t is inside of
    listed,     \* listed[t]: the keys list() of thread t has collected
    mutations,  \* the write and delete calls that returned, oldest first
    sdone       \* the call that returned last, and what it returned

VARIABLES
    \* ---- one SPAKE2 handshake object (wasm-crypto/src/pake.rs) ----
    ktype,          \* "none" | "Spake2A" | "Spake2B" | "Spake2Symmetric"
    state,          \* Option<Spake2<Ed25519Group>>
    outbound_msg,   \* Vec<u8>: the message made by the constructor
    finishes,       \* what the calls of finish returned, oldest first
    shown           \* what the calls of message() returned

varintVars == <<vpc, vwidth, value, out, base, vinput, vresult>>
frameVars == <<fpc, sent, wire, ends, how, finput, fmax, fresult>>
streamVars == <<conn, sframes, swire, arrived, rbuf, delivered>>
payloadVars == <<ppc, pkind, pvalue, pwire, pframe, ppayload, presult>>
threadVars == <<tpc, tcall, tlocal, tret, heap>>
\* the components outside the wire codec's own harnesses
bindVars == <<bpc, bfn, bkey, bnonce, binner, bsealed, bsecond, btamper, bopenkey, bbytes, bresult>>
aclVars == <<permissions, aclops>>
storeVars == <<files, mutex, spc, scall, listed, mutations, sdone>>
pakeVars == <<ktype, state, outbound_msg, finishes, shown>>
restVars == <<threadVars, bindVars, aclVars, storeVars, pakeVars>>
vars == <<usize, varintVars, frameVars, streamVars, payloadVars, restVars>>

\* what the calls of one component leave alone
notVarint == <<usize, frameVars, streamVars, payloadVars, restVars>>
notFrame == <<usize, varintVars, streamVars, payloadVars, restVars>>
notStream == <<usize, varintVars, frameVars, payloadVars, restVars>>
notPayload == <<usize, varintVars, frameVars, streamVars, restVars>>
codecVars == <<varintVars, frameVars, streamVars, payloadVars>>
notThread == <<usize, codecVars, bindVars, aclVars, storeVars, pakeVars>>
notBind == <<usize, codecVars, threadVars, aclVars, storeVars, pakeVars>>
notAcl == <<usize, codecVars, threadVars, bindVars, storeVars, pakeVars>>
notStore == <<usize, codecVars, threadVars, bindVars, aclVars, pakeVars>>
notPake == <<usize, codecVars, threadVars, bindVars, aclVars, storeVars>>

(***************************************************************************)
(* Bounds of the model.                                                    *)
(***************************************************************************)
\* longest raw (peer-supplied) varint byte string handed to a decoder
MaxRawLen == 11
\* payloads of every length 0..MaxSmallLen over PayloadBytes are framed
MaxSmallLen == 2
\* frames encoded back to back into one buffer
MaxFrames == 2
\* frames written to one stream
MaxStreamFrames == 2
\* bytes that reach the receiver in one arrival: 1..MaxChunk, or all that is left
MaxChunk == 3
\* longest ciphertext placed after a nonce
MaxCipherLen == 2
\* length of the long string sample: its length varint takes two bytes
LongStringLen == 130
\* threads that call the codec at the same time
MaxThreads == 2
\* longest envelope payload of which every bit is flipped in turn
MaxFlipLen == 64
\* grant and revoke calls made on one AccessControlList
MaxAclOps == 3
\* write and delete calls made on one InMemoryStorage
MaxStoreOps == 3
\* finish calls made on one handshake object
MaxFinishCalls == 3

(***************************************************************************)
(* Bit vectors                                                             *)
(***************************************************************************)
Pow2Tab == [i \in 0..30 |-> 2^i]

\* bit i of a natural n < 2^31
NatBit(n, i) == IF i > 30 THEN 0 ELSE (n \div Pow2Tab[i]) % 2

\* `n as u32` / `n as u64` for a natural n < 2^31 (no truncation happens)
FromNat(n, w) == [k \in 1..w |-> NatBit(n, k - 1)]

Zero(w) == [k \in 1..w |-> 0]

\* `value >= 0x80`: some bit above the low seven is set
GeX80(v) == \E k \in 8..Len(v) : v[k] = 1

\* `(value as u8) & 0x7F`: the low seven bits, as a byte
Low7(v) == v[1] + 2 * v[2] + 4 * v[3] + 8 * v[4] + 16 * v[5] + 32 * v[6] + 64 * v[7]

\* `value as u8`: the low eight bits, as a byte
AsU8(v) == Low7(v) + 128 * v[8]

\* mutant of Shr7: the encoder shifts by a whole byte, `value >>= 8`
Shr7_ByEight(v) == [k \in 1..Len(v) |-> IF k + 8 <= Len(v) THEN v[k + 8] ELSE 0]

\* `value >>= 7` (logical shift right, zeros shifted in)
Shr7(v) == [k \in 1..Len(v) |-> IF k + 7 <= Len(v) THEN v[k + 7] ELSE 0]

\* `(bits as uW) << shift` for a 7-bit `bits` and shift < W: bits shifted past
\* the top of the word are dropped (Rust's << only checks the shift amount)
ShlBits(bits, shift, w) ==
    [k \in 1..w |-> IF k - 1 >= shift /\ k - 1 - shift < 7 THEN NatBit(bits, k - 1 - shift) ELSE 0]

\* mutant of GtBits: the bound test written `payload_len >= max_payload_len`
GtBits_OrEqual(a, b) ==
    \/ a = b
    \/ \E k \in 1..Len(a) :
        /\ a[k] = 1
        /\ b[k] = 0
        /\ \A j \in (k + 1)..Len(a) : a[j] = b[j]

\* `a > b` on two unsigned integers of the same width
GtBits(a, b) ==
    \E k \in 1..Len(a) :
        /\ a[k] = 1
        /\ b[k] = 0
        /\ \A j \in (k + 1)..Len(a) : a[j] = b[j]

\* whether `v as usize` is below 2^31, and then its value as a natural
FitsNat(v) == \A k \in 32..Len(v) : v[k] = 0
RECURSIVE SumBits(_, _)
SumBits(v, k) == IF k > 31 \/ k > Len(v) THEN 0 ELSE v[k] * Pow2Tab[k - 1] + SumBits(v, k + 1)
ToNat(v) == SumBits(v, 1)

\* `a | b`
BitOr(a, b) == [k \in 1..Len(a) |-> IF a[k] = 1 \/ b[k] = 1 THEN 1 ELSE 0]

\* `!a`
BitNot(a) == [k \in 1..Len(a) |-> 1 - a[k]]

(***************************************************************************)
(* varint.rs                                                               *)
(***************************************************************************)
\* a result that counts one byte too many
VarintOk_OneMore(v, n) == [ok |-> TRUE, value |-> v, used |-> n + 1]
VarintOk(v, n) == [ok |-> TRUE, value |-> v, used |-> n]
VarintErr(e) == [ok |-> FALSE, err |-> e]

RECURSIVE EncodeVarintLoop(_, _)
EncodeVarintLoop(v, o) ==
    IF GeX80(v)
    THEN EncodeVarintLoop(Shr7(v), Append(o, Low7(v) + 128))
    ELSE Append(o, AsU8(v))

\* pub fn encode_u32_varint(mut value: u32, out: &mut Vec<u8>)
encode_u32_varint(v, o) == EncodeVarintLoop(v, o)

\* pub fn encode_u64_varint(mut value: u64, out: &mut Vec<u8>)
encode_u64_varint(v, o) == EncodeVarintLoop(v, o)

\* the body of `for (i, &byte) in input.iter().enumerate()`, i counted from 1
\* a decoder that lets one more byte through before it reports Overflow
RECURSIVE DecodeVarintLoop_LateOverflow(_, _, _, _, _)
DecodeVarintLoop_LateOverflow(input, i, result, shift, w) ==
    IF i > Len(input) THEN VarintErr("UnexpectedEof")
    ELSE LET byte == input[i]
             bits == byte % 128
         IN  IF shift >= w + 7 THEN VarintErr("Overflow")
             ELSE LET r2 == BitOr(result, ShlBits(bits, shift, w))
                  IN  IF byte < 128 THEN VarintOk(r2, i)
                      ELSE DecodeVarintLoop_LateOverflow(input, i + 1, r2, shift + 7, w)

\* a decoder that accepts the shortest encoding of a value only
RECURSIVE DecodeVarintLoop_Canonical(_, _, _, _, _)
DecodeVarintLoop_Canonical(input, i, result, shift, w) ==
    IF i > Len(input) THEN VarintErr("UnexpectedEof")
    ELSE LET byte == input[i]
             bits == byte % 128
         IN  IF shift >= w THEN VarintErr("Overflow")
             ELSE LET r2 == BitOr(result, ShlBits(bits, shift, w))
                  IN  IF byte < 128
                      THEN IF byte = 0 /\ i > 1 THEN VarintErr("Overflow") ELSE VarintOk(r2, i)
                      ELSE DecodeVarintLoop_Canonical(input, i + 1, r2, shift + 7, w)

RECURSIVE DecodeVarintLoop(_, _, _, _, _)
DecodeVarintLoop(input, i, result, shift, w) ==
    IF i > Len(input)
    THEN VarintErr("UnexpectedEof")
    ELSE LET byte == input[i]
             bits == byte % 128
         IN  IF shift >= w
             THEN VarintErr("Overflow")
             ELSE LET r2 == BitOr(result, ShlBits(bits, shift, w))
                  IN  IF byte < 128
                      THEN VarintOk(r2, i)
                      ELSE DecodeVarintLoop(input, i + 1, r2, shift + 7, w)

\* pub fn decode_u32_varint(input: &[u8]) -> Result<(u32, usize), VarintError>
decode_u32_varint(input) == DecodeVarintLoop(input, 1, Zero(32), 0, 32)

\* pub fn decode_u64_varint(input: &[u8]) -> Result<(u64, usize), VarintError>
decode_u64_varint(input) == DecodeVarintLoop(input, 1, Zero(64), 0, 64)

(***************************************************************************)
(* frame.rs: the frame envelope codec                                      *)
(***************************************************************************)
MAGIC == <<72, 79>>
VERSION_V1 == 1

\* enum FrameType, #[repr(u8)]
FrameTypes ==
    {"Ping", "Pong", "ChatText", "FileOffer", "FileAccept", "FileReject", "FileChunk", "FileEnd",
     "ProtocolError", "EncryptedEnvelope"}

\* `frame.frame_type as u8`
TagOf(t) ==
    CASE t = "Ping" -> 1
      [] t = "Pong" -> 2
      [] t = "ChatText" -> 16
      [] t = "FileOffer" -> 32
      [] t = "FileAccept" -> 33
      [] t = "FileReject" -> 34
      [] t = "FileChunk" -> 35
      [] t = "FileEnd" -> 36
      [] t = "ProtocolError" -> 127
      [] t = "EncryptedEnvelope" -> 80

\* mutant of from_u8: an unknown tag falls back to a default variant
from_u8_Default(b) ==
    CASE b = 1 -> "Ping"
      [] b = 2 -> "Pong"
      [] b = 16 -> "ChatText"
      [] b = 32 -> "FileOffer"
      [] b = 33 -> "FileAccept"
      [] b = 34 -> "FileReject"
      [] b = 35 -> "FileChunk"
      [] b = 36 -> "FileEnd"
      [] b = 127 -> "ProtocolError"
      [] b = 80 -> "EncryptedEnvelope"
      [] OTHER -> "ProtocolError"

\* FrameType::from_u8; "None" is Option::None
from_u8(b) ==
    CASE b = 1 -> "Ping"
      [] b = 2 -> "Pong"
      [] b = 16 -> "ChatText"
      [] b = 32 -> "FileOffer"
      [] b = 33 -> "FileAccept"
      [] b = 34 -> "FileReject"
      [] b = 35 -> "FileChunk"
      [] b = 36 -> "FileEnd"
      [] b = 127 -> "ProtocolError"
      [] b = 80 -> "EncryptedEnvelope"
      [] OTHER -> "None"

Frame(t, fl, p) == [frame_type |-> t, flags |-> fl, payload |-> p]

FrameOk(f, n) == [ok |-> TRUE, frame |-> f, used |-> n]
FrameErr(e) == [ok |-> FALSE, err |-> e]

\* enum DecodeError
UnexpectedEof == [kind |-> "UnexpectedEof"]
BadMagic == [kind |-> "BadMagic"]
\* mutant of UnsupportedVersion: the error carries the supported version
UnsupportedVersion_Supported(v) == [kind |-> "UnsupportedVersion", version |-> 1]
UnsupportedVersion(v) == [kind |-> "UnsupportedVersion", version |-> v]
UnknownFrameType(b) == [kind |-> "UnknownFrameType", frame_type |-> b]
\* impl From<VarintError> for DecodeError
Varint(e) == [kind |-> "Varint", inner |-> e]
\* mutant of LengthTooLarge: the two fields filled the wrong way round
LengthTooLarge_Swapped(l, m) == [kind |-> "LengthTooLarge", length |-> m, max |-> l]
LengthTooLarge(l, m) == [kind |-> "LengthTooLarge", length |-> l, max |-> m]

\* an encoder that clears `out` before it writes
encode_v1_Cleared(frame, o) ==
    LET o1 == MAGIC
        o2 == Append(o1, VERSION_V1)
        o3 == Append(o2, TagOf(frame.frame_type))
        o4 == Append(o3, frame.flags)
        o5 == encode_u32_varint(FromNat(Len(frame.payload), 32), o4)
    IN  o5 \o frame.payload

\* pub fn encode_v1(frame: &Frame, out: &mut Vec<u8>)
encode_v1(frame, o) ==
    LET o1 == o \o MAGIC
        o2 == Append(o1, VERSION_V1)
        o3 == Append(o2, TagOf(frame.frame_type))
        o4 == Append(o3, frame.flags)
        o5 == encode_u32_varint(FromNat(Len(frame.payload), 32), o4)
    IN  o5 \o frame.payload

\* a panic of the call (an arithmetic overflow check or a slice index out of
\* order or range); it is no DecodeError and unwinds or aborts the caller
Panic == [kind |-> "panic"]

\* `a + v as usize` for a buffer offset a and a u32 v.  With a 64-bit usize the
\* sum cannot wrap; a sum of 2^30 or more (big) exceeds the length of every
\* buffer of the model.  With a 32-bit usize the sum wraps when v > !a, that
\* is a + v >= 2^32, to a + v - 2^32 = a - 1 - !v (a build with overflow
\* checks panics at the addition instead).
Below2Pow30(v) == \A k \in 31..Len(v) : v[k] = 0
UsizeAdd(a, v) ==
    IF usize = 32 /\ GtBits(v, BitNot(FromNat(a, 32)))
    THEN [wrapped |-> TRUE, big |-> FALSE, n |-> a - 1 - ToNat(BitNot(v))]
    ELSE IF Below2Pow30(v) THEN [wrapped |-> FALSE, big |-> FALSE, n |-> a + ToNat(v)]
    ELSE [wrapped |-> FALSE, big |-> TRUE, n |-> 0]

\* `input.len() < total_len` with total_len = header_len + payload_len as usize
ShortOfTotal(input, header_len, payload_len) ==
    UsizeAdd(header_len, payload_len).big \/ Len(input) < UsizeAdd(header_len, payload_len).n

\* mutant of PayloadSlice: the payload runs to the end of the input
PayloadSlice_ToEnd(input, header_len, total_len) == SubSeq(input, header_len + 1, Len(input))
\* `input[header_len..total_len].to_vec()`
PayloadSlice(input, header_len, total_len) == SubSeq(input, header_len + 1, total_len)

\* mutant of decode_v1: the buffer-length test made before the bound test
decode_v1_EofFirst(input, max_payload_len) ==
    IF Len(input) < 5 THEN FrameErr(UnexpectedEof)
    ELSE IF SubSeq(input, 1, 2) # MAGIC THEN FrameErr(BadMagic)
    ELSE LET version == input[3] IN
    IF version # VERSION_V1 THEN FrameErr(UnsupportedVersion(version))
    ELSE LET frame_type_raw == input[4]
             flags == input[5]
             frame_type == from_u8(frame_type_raw) IN
    IF frame_type = "None" THEN FrameErr(UnknownFrameType(frame_type_raw))
    ELSE LET lenres == decode_u32_varint(SubSeq(input, 6, Len(input))) IN
    IF ~lenres.ok THEN FrameErr(Varint(lenres.err))
    ELSE LET payload_len == lenres.value
             varint_len == lenres.used
             header_len == 5 + varint_len IN
    IF ShortOfTotal(input, header_len, payload_len) THEN FrameErr(UnexpectedEof)
    ELSE IF GtBits(payload_len, max_payload_len) THEN FrameErr(LengthTooLarge(payload_len, max_payload_len))
    ELSE LET total_len == UsizeAdd(header_len, payload_len).n IN
    IF header_len > total_len THEN FrameErr(Panic)
    ELSE LET payload == PayloadSlice(input, header_len, total_len)
         IN  FrameOk(Frame(frame_type, flags, payload), total_len)

\* pub fn decode_v1(input: &[u8], max_payload_len: u32) -> Result<(Frame, usize), DecodeError>
decode_v1(input, max_payload_len) ==
    IF Len(input) < 5 THEN FrameErr(UnexpectedEof)
    ELSE IF SubSeq(input, 1, 2) # MAGIC THEN FrameErr(BadMagic)
    ELSE LET version == input[3] IN
    IF version # VERSION_V1 THEN FrameErr(UnsupportedVersion(version))
    ELSE LET frame_type_raw == input[4]
             flags == input[5]
             frame_type == from_u8(frame_type_raw) IN
    IF frame_type = "None" THEN FrameErr(UnknownFrameType(frame_type_raw))
    ELSE LET lenres == decode_u32_varint(SubSeq(input, 6, Len(input))) IN
    IF ~lenres.ok THEN FrameErr(Varint(lenres.err))
    ELSE LET payload_len == lenres.value
             varint_len == lenres.used IN
    IF GtBits(payload_len, max_payload_len) THEN FrameErr(LengthTooLarge(payload_len, max_payload_len))
    ELSE LET header_len == 5 + varint_len IN
    IF ShortOfTotal(input, header_len, payload_len) THEN FrameErr(UnexpectedEof)
    ELSE LET total_len == UsizeAdd(header_len, payload_len).n IN
    \* `input[header_len..total_len]` panics when total_len has wrapped below header_len
    IF header_len > total_len THEN FrameErr(Panic)
    ELSE LET payload == PayloadSlice(input, header_len, total_len)
         IN  FrameOk(Frame(frame_type, flags, payload), total_len)

(***************************************************************************)
(* frame.rs: typed payload codecs                                          *)
(***************************************************************************)
\* a String is held as its UTF-8 bytes, a Vec<u8> / &[u8] as its bytes
ENVELOPE_NONCE_LEN == 24

InvalidUtf8 == [kind |-> "InvalidUtf8"]
BadEnvelope == [kind |-> "BadEnvelope"]

Ok(v) == [ok |-> TRUE, value |-> v]
Err(e) == [ok |-> FALSE, err |-> e]
StringOk(s, n) == [ok |-> TRUE, value |-> s, used |-> n]

IsCont(bytes, i) == i <= Len(bytes) /\ bytes[i] >= 128 /\ bytes[i] <= 191

\* the number of bytes of the well-formed UTF-8 sequence that starts at
\* bytes[i], 0 if there is none (the ranges std::str::from_utf8 accepts: no
\* overlong form, no surrogate, nothing above U+10FFFF)
Utf8SeqLen(bytes, i) ==
    LET b == bytes[i]
        second(lo, hi) == i + 1 <= Len(bytes) /\ bytes[i + 1] >= lo /\ bytes[i + 1] <= hi
    IN  IF b <= 127 THEN 1
        ELSE IF b >= 194 /\ b <= 223 THEN (IF IsCont(bytes, i + 1) THEN 2 ELSE 0)
        ELSE IF b = 224 THEN (IF second(160, 191) /\ IsCont(bytes, i + 2) THEN 3 ELSE 0)
        ELSE IF b = 237 THEN (IF second(128, 159) /\ IsCont(bytes, i + 2) THEN 3 ELSE 0)
        ELSE IF b >= 225 /\ b <= 239
             THEN (IF IsCont(bytes, i + 1) /\ IsCont(bytes, i + 2) THEN 3 ELSE 0)
        ELSE IF b = 240
             THEN (IF second(144, 191) /\ IsCont(bytes, i + 2) /\ IsCont(bytes, i + 3) THEN 4 ELSE 0)
        ELSE IF b >= 241 /\ b <= 243
             THEN (IF IsCont(bytes, i + 1) /\ IsCont(bytes, i + 2) /\ IsCont(bytes, i + 3)
                   THEN 4 ELSE 0)
        ELSE IF b = 244
             THEN (IF second(128, 143) /\ IsCont(bytes, i + 2) /\ IsCont(bytes, i + 3) THEN 4 ELSE 0)
        ELSE 0

\* std::str::from_utf8(bytes).is_ok(): every byte that is no continuation
\* byte starts a well-formed sequence, and every continuation byte lies
\* inside the sequence of the nearest such byte before it
from_utf8(bytes) ==
    \A i \in 1..Len(bytes) :
        IF bytes[i] >= 128 /\ bytes[i] <= 191
        THEN \E j \in 1..(i - 1) :
                /\ i - j <= 3
                /\ ~(bytes[j] >= 128 /\ bytes[j] <= 191)
                /\ \A k \in (j + 1)..i : bytes[k] >= 128 /\ bytes[k] <= 191
                /\ Utf8SeqLen(bytes, j) > i - j
        ELSE Utf8SeqLen(bytes, i) # 0

\* fn encode_string(out: &mut Vec<u8>, value: &str)
encode_string(o, str) == encode_u32_varint(FromNat(Len(str), 32), o) \o str

\* fn decode_string(input: &[u8]) -> Result<(String, usize), DecodeError>
decode_string(input) ==
    LET lenres == decode_u32_varint(input) IN
    IF ~lenres.ok THEN Err(Varint(lenres.err))
    ELSE LET start == lenres.used
             endsum == UsizeAdd(start, lenres.value) IN
    IF endsum.big \/ Len(input) < endsum.n THEN Err(UnexpectedEof)
    \* `&input[start..end]` panics when end has wrapped below start
    ELSE IF start > endsum.n THEN Err(Panic)
    ELSE IF ~from_utf8(SubSeq(input, start + 1, endsum.n)) THEN Err(InvalidUtf8)
    ELSE StringOk(SubSeq(input, start + 1, endsum.n), endsum.n)

\* `&payload[i..]`: the bytes from offset i on; `i <= payload.len()` is the
\* condition under which the slice expression does not panic
SliceFrom(payload, i) == SubSeq(payload, i + 1, Len(payload))
SliceFromInRange(payload, i) == i <= Len(payload)

FileOffer(id, filename, mime_type, size) ==
    [id |-> id, filename |-> filename, mime_type |-> mime_type, size |-> size]
FileChunk(id, chunk_index, data) == [id |-> id, chunk_index |-> chunk_index, data |-> data]
FileReject(id, reason) == [id |-> id, reason |-> reason]

\* pub fn encode_file_offer_v1(offer: &FileOffer) -> Vec<u8>
encode_file_offer_v1(offer) ==
    LET p1 == encode_string(<<>>, offer.id)
        p2 == encode_string(p1, offer.filename)
        p3 == encode_string(p2, offer.mime_type)
        payload == encode_u64_varint(offer.size, p3)
    IN  encode_v1(Frame("FileOffer", 0, payload), <<>>)

\* pub fn encode_file_accept_v1(id: &str) -> Vec<u8>
encode_file_accept_v1(id) == encode_v1(Frame("FileAccept", 0, encode_string(<<>>, id)), <<>>)

\* a decoder that takes nothing after the id
decode_file_accept_payload_v1_Exact(payload) ==
    LET r1 == decode_string(payload) IN
    IF ~r1.ok THEN r1
    ELSE IF r1.used # Len(payload) THEN Err(UnexpectedEof)
    ELSE Ok([id |-> r1.value])

\* pub fn decode_file_accept_payload_v1(payload: &[u8]) -> Result<String, DecodeError>
decode_file_accept_payload_v1(payload) ==
    LET r1 == decode_string(payload) IN
    IF ~r1.ok THEN r1 ELSE Ok([id |-> r1.value])

\* pub fn encode_file_reject_v1(id: &str, reason: &str) -> Vec<u8>
encode_file_reject_v1(id, reason) ==
    encode_v1(Frame("FileReject", 0, encode_string(encode_string(<<>>, id), reason)), <<>>)

\* pub fn encode_encrypted_envelope_v1(nonce: &[u8; 24], ciphertext: &[u8]) -> Vec<u8>
encode_encrypted_envelope_v1(nonce, ciphertext) ==
    encode_v1(Frame("EncryptedEnvelope", 0, (<<>> \o nonce) \o ciphertext), <<>>)

\* a split one byte late
EnvelopeParts_OneLate(payload) ==
    [nonce |-> SubSeq(payload, 1, ENVELOPE_NONCE_LEN),
     ciphertext |-> SubSeq(payload, ENVELOPE_NONCE_LEN + 2, Len(payload))]
\* `payload[..ENVELOPE_NONCE_LEN]` and `payload[ENVELOPE_NONCE_LEN..]`
EnvelopeParts(payload) ==
    [nonce |-> SubSeq(payload, 1, ENVELOPE_NONCE_LEN),
     ciphertext |-> SubSeq(payload, ENVELOPE_NONCE_LEN + 1, Len(payload))]

\* pub fn decode_encrypted_envelope_payload_v1(payload: &[u8])
decode_encrypted_envelope_payload_v1(payload) ==
    IF Len(payload) < ENVELOPE_NONCE_LEN THEN Err(BadEnvelope)
    ELSE Ok(EnvelopeParts(payload))

\* a decoder that reads the reason where the id was
decode_file_reject_payload_v1_SameOffset(payload) ==
    LET r1 == decode_string(payload) IN
    IF ~r1.ok THEN r1
    ELSE LET r2 == decode_string(payload) IN
    IF ~r2.ok THEN r2
    ELSE Ok(FileReject(r1.value, r2.value))

\* pub fn decode_file_reject_payload_v1(payload: &[u8]) -> Result<FileReject, DecodeError>
decode_file_reject_payload_v1(payload) ==
    LET r1 == decode_string(payload) IN
    IF ~r1.ok THEN r1
    ELSE IF ~SliceFromInRange(payload, r1.used) THEN Err(Panic)
    ELSE LET r2 == decode_string(SliceFrom(payload, r1.used)) IN
    IF ~r2.ok THEN r2
    ELSE Ok(FileReject(r1.value, r2.value))

\* a decoder that reads the mime type where the filename was
decode_file_offer_payload_v1_SameOffset(payload) ==
    LET r1 == decode_string(payload) IN
    IF ~r1.ok THEN r1
    ELSE LET r2 == decode_string(SliceFrom(payload, r1.used)) IN
    IF ~r2.ok THEN r2
    ELSE LET r3 == decode_string(SliceFrom(payload, r1.used)) IN
    IF ~r3.ok THEN r3
    ELSE LET r4 == decode_u64_varint(SliceFrom(payload, r1.used + r2.used + r3.used)) IN
    IF ~r4.ok THEN Err(Varint(r4.err))
    ELSE Ok(FileOffer(r1.value, r2.value, r3.value, r4.value))

\* pub fn decode_file_offer_payload_v1(payload: &[u8]) -> Result<FileOffer, DecodeError>
decode_file_offer_payload_v1(payload) ==
    LET r1 == decode_string(payload) IN
    IF ~r1.ok THEN r1
    ELSE IF ~SliceFromInRange(payload, r1.used) THEN Err(Panic)
    ELSE LET r2 == decode_string(SliceFrom(payload, r1.used)) IN
    IF ~r2.ok THEN r2
    ELSE IF ~SliceFromInRange(payload, r1.used + r2.used) THEN Err(Panic)
    ELSE LET r3 == decode_string(SliceFrom(payload, r1.used + r2.used)) IN
    IF ~r3.ok THEN r3
    ELSE IF ~SliceFromInRange(payload, r1.used + r2.used + r3.used) THEN Err(Panic)
    ELSE LET r4 == decode_u64_varint(SliceFrom(payload, r1.used + r2.used + r3.used)) IN
    IF ~r4.ok THEN Err(Varint(r4.err))
    ELSE Ok(FileOffer(r1.value, r2.value, r3.value, r4.value))

\* pub fn encode_file_chunk_v1(id: &str, chunk_index: u32, data: &[u8]) -> Vec<u8>
encode_file_chunk_v1(id, chunk_index, data) ==
    LET p1 == encode_string(<<>>, id)
        p2 == encode_u32_varint(chunk_index, p1)
    IN  encode_v1(Frame("FileChunk", 0, p2 \o data), <<>>)

\* a decoder whose data begins at the chunk index
decode_file_chunk_payload_v1_DataAtIndex(payload) ==
    LET r1 == decode_string(payload) IN
    IF ~r1.ok THEN r1
    ELSE LET r2 == decode_u32_varint(SliceFrom(payload, r1.used)) IN
    IF ~r2.ok THEN Err(Varint(r2.err))
    ELSE Ok(FileChunk(r1.value, r2.value, SliceFrom(payload, r1.used)))

\* pub fn decode_file_chunk_payload_v1(payload: &[u8]) -> Result<FileChunk, DecodeError>
decode_file_chunk_payload_v1(payload) ==
    LET r1 == decode_string(payload) IN
    IF ~r1.ok THEN r1
    ELSE IF ~SliceFromInRange(payload, r1.used) THEN Err(Panic)
    ELSE LET r2 == decode_u32_varint(SliceFrom(payload, r1.used)) IN
    IF ~r2.ok THEN Err(Varint(r2.err))
    ELSE LET data_start == r1.used + r2.used IN
    IF data_start > Len(payload) THEN Err(UnexpectedEof)
    ELSE Ok(FileChunk(r1.value, r2.value, SliceFrom(payload, data_start)))

\* pub fn encode_file_end_v1(id: &str) -> Vec<u8>
encode_file_end_v1(id) == encode_v1(Frame("FileEnd", 0, encode_string(<<>>, id)), <<>>)

\* pub fn decode_file_end_payload_v1(payload: &[u8]) -> Result<String, DecodeError>
decode_file_end_payload_v1(payload) ==
    LET r1 == decode_string(payload) IN
    IF ~r1.ok THEN r1 ELSE Ok([id |-> r1.value])

\* the payload decoder the receiver runs for a frame of each typed kind
PayloadKinds ==
    {"FileOffer", "FileAccept", "FileReject", "FileChunk", "FileEnd", "EncryptedEnvelope"}
DecodePayloadOf(kind, payload) ==
    CASE kind = "FileOffer" -> decode_file_offer_payload_v1(payload)
      [] kind = "FileAccept" -> decode_file_accept_payload_v1(payload)
      [] kind = "FileReject" -> decode_file_reject_payload_v1(payload)
      [] kind = "FileChunk" -> decode_file_chunk_payload_v1(payload)
      [] kind = "FileEnd" -> decode_file_end_payload_v1(payload)
      [] kind = "EncryptedEnvelope" -> decode_encrypted_envelope_payload_v1(payload)

(***************************************************************************)
(* Inputs of the varint harness                                            *)
(***************************************************************************)
\* 2^k - 1, 2^k, 2^k + 1 and the two alternating patterns: every encoded
\* length (1..5 bytes for u32, 1..10 for u64) and both ends of each occur
LowOnes(n, w) == [k \in 1..w |-> IF k - 1 < n THEN 1 ELSE 0]
OneHot(n, w) == [k \in 1..w |-> IF k - 1 = n THEN 1 ELSE 0]
OneHotPlus1(n, w) == [k \in 1..w |-> IF k - 1 = n \/ k = 1 THEN 1 ELSE 0]
Alternating(par, w) == [k \in 1..w |-> IF k % 2 = par THEN 1 ELSE 0]

UintSamples(w) ==
    {LowOnes(k, w) : k \in 0..w} \cup {OneHot(k, w) : k \in 0..(w - 1)}
        \cup {OneHotPlus1(k, w) : k \in 0..(w - 1)} \cup {Alternating(par, w) : par \in 0..1}

U32Samples == UintSamples(32)
U64Samples == UintSamples(64)
U32Max == LowOnes(32, 32)
U64Max == LowOnes(64, 64)

\* what `out` may already hold when the encoder is called
Prefills == {<<>>, <<238, 128>>}

\* raw byte strings a peer may send where a varint is expected: continuation
\* bytes 0x80 / 0xFF, then a terminating byte or the end of the buffer
ContBytes == {128, 255}
TermBytes == {0, 1, 15, 16, 127}
RawVarints ==
    {<<>>} \cup
    UNION {{Append(c, b) : c \in [1..(n - 1) -> ContBytes], b \in ContBytes \cup TermBytes}
            : n \in 1..MaxRawLen}

\* bytes that follow a raw varint in the decoder's input: a continuation byte
\* and a second terminating byte
RawTails == {<<>>, <<128, 0>>}

NoResult == [ok |-> FALSE, err |-> "not called"]
NoFrameResult == [ok |-> FALSE, err |-> [kind |-> "not called"]]

(***************************************************************************)
(* Inputs of the frame harness                                             *)
(***************************************************************************)
FlagSamples == {0, 170}
PayloadBytes == {0, 255}

RECURSIVE SeqsOfLen(_, _)
SeqsOfLen(S, n) == IF n = 0 THEN {<<>>} ELSE {Append(q, b) : q \in SeqsOfLen(S, n - 1), b \in S}

\* every payload of length 0..MaxSmallLen over PayloadBytes
SmallPayloads == UNION {SeqsOfLen(PayloadBytes, n) : n \in 0..MaxSmallLen}

\* a payload of length n whose bytes run through all residues (37 is odd)
Pattern(n) == [i \in 1..n |-> (37 * i) % 256]

\* 33: the scenario of spec section 8; 127 | 128: the last length with a
\* one-byte length varint and the first with a two-byte one
BigLens == {33, 127, 128, 129}

Payloads == SmallPayloads \cup {Pattern(n) : n \in BigLens}

Frames == {Frame(t, fl, p) : t \in FrameTypes, fl \in FlagSamples, p \in Payloads}

\* frames encoded after the first one into the same buffer; the payload of the
\* second is itself a well-formed encoded frame
NextFrames ==
    {Frame("Pong", 0, <<>>), Frame("FileChunk", 1, <<72, 79, 1, 1, 0, 0>>),
     Frame("ChatText", 255, Pattern(130))}

\* bytes that follow the encoded frames in the decoder's input
Trailers == {<<>>, <<0>>, <<72, 79, 1>>, <<255, 255, 255, 255, 255, 255, 255>>}

\* 1024 * 1024, the bound the bindings pass (wasm-p2p/src/lib.rs)
BindingMax == FromNat(1048576, 32)

\* values of max_payload_len tried against a payload of length n
MaxChoices(n) ==
    {FromNat(m, 32) : m \in ({0, n - 1, n, n + 1} \cap Nat)} \cup {BindingMax, U32Max}

\* values of max_payload_len tried against a strict prefix of a frame whose
\* payload has length n: one below the length, the length, the bindings' bound
PrefixMaxChoices(n) == {FromNat(m, 32) : m \in ({n - 1, n} \cap Nat)} \cup {BindingMax}

\* frames whose header bytes are overwritten one at a time
TamperFrames == {f \in Frames : f.flags = 0 /\ Len(f.payload) \in {0, 33}}

\* hand-made inputs: five header bytes, a raw length varint, some payload bytes
ForgedMagic0 == {72, 104}
ForgedMagic1 == {79, 0}
ForgedVersion == {1, 2}
ForgedType == {1, 80, 0}
\* raw length varints; `declared` is the value worked out by hand for the
\* well-formed ones (wf): a natural, or huge for 0xFFFFFFFF
ForgedLens ==
    {[bytes |-> <<>>, wf |-> FALSE, huge |-> FALSE, declared |-> 0],
     [bytes |-> <<128>>, wf |-> FALSE, huge |-> FALSE, declared |-> 0],
     [bytes |-> <<128, 128, 128, 128, 128, 0>>, wf |-> FALSE, huge |-> FALSE, declared |-> 0],
     [bytes |-> <<0>>, wf |-> TRUE, huge |-> FALSE, declared |-> 0],
     [bytes |-> <<5>>, wf |-> TRUE, huge |-> FALSE, declared |-> 5],
     [bytes |-> <<129, 0>>, wf |-> TRUE, huge |-> FALSE, declared |-> 1],
     [bytes |-> <<255, 255, 255, 255, 15>>, wf |-> TRUE, huge |-> TRUE, declared |-> 0]}
ForgedTails == {<<>>, <<1>>, <<1, 2, 3, 4, 5>>}
\* how many bytes of a hand-made input are given to the decoder: two, four,
\* or all n of them
ForgedKeeps(n) == {2, 4, n}
ForgedMax == {FromNat(m, 32) : m \in {0, 4, 5}} \cup {BindingMax, U32Max}

NoHow == [kind |-> "none"]

\* frames written to the stream: an empty payload, a short one, and one whose
\* length varint takes two bytes
StreamFrames ==
    {Frame("Ping", 0, <<>>), Frame("ChatText", 0, <<104, 105>>), Frame("FileChunk", 1, Pattern(130))}

(***************************************************************************)
(* Inputs of the typed payload harness                                     *)
(***************************************************************************)
\* a string of LongStringLen lower-case letters
LongString == [i \in 1..LongStringLen |-> 97 + (i % 26)]

\* "", "a", "e-acute" (2 bytes), "id" + euro sign (3 bytes), the long string
StringSamples == {<<>>, <<97>>, <<195, 169>>, <<105, 100, 226, 130, 172>>, LongString}

SizeSamples == {Zero(64), FromNat(1234, 64), OneHot(35, 64), U64Max}
ChunkIndexSamples == {Zero(32), FromNat(300, 32), U32Max}
\* chunk data: empty, a zero byte, 0x80 first, bytes that are no UTF-8
DataSamples == {<<>>, <<0>>, <<128, 0>>, <<255, 254, 0, 128, 195>>}

FileOffers ==
    {FileOffer(i, f, mt, sz) : i \in StringSamples, f \in StringSamples, mt \in StringSamples,
                               sz \in SizeSamples}
FileChunks == {FileChunk(i, c, d) : i \in StringSamples, c \in ChunkIndexSamples, d \in DataSamples}
FileRejects == {FileReject(i, r) : i \in StringSamples, r \in StringSamples}

NonceSamples == {[i \in 1..ENVELOPE_NONCE_LEN |-> 0], Pattern(ENVELOPE_NONCE_LEN)}
CipherSamples == {Pattern(n) : n \in 0..MaxCipherLen} \cup {<<0>>}

\* bytes a peer may send where a length-prefixed string is expected: declared
\* lengths 0xFFFFFFFF, 0xFFFFFFFB, 0xFFFFFFFA and 0x7FFFFFFF, a declared length
\* one above what follows, ill-formed UTF-8 (a lone 0xFF, a cut sequence, a
\* surrogate, an overlong form), a cut and an over-long length varint, and
\* well-formed strings
HostileStrings ==
    {<<255, 255, 255, 255, 15>>, <<251, 255, 255, 255, 15, 1, 2>>, <<250, 255, 255, 255, 15>>,
     <<255, 255, 255, 255, 7, 97>>, <<2, 97>>, <<1>>, <<1, 255>>, <<2, 195, 40>>,
     <<3, 237, 160, 128>>, <<2, 192, 128>>, <<128>>, <<128, 128, 128, 128, 128, 0>>,
     <<>>, <<0>>, <<1, 97>>, <<128, 0>>, <<3, 226, 130, 172, 9>>}

\* well-formed fields ahead of the hostile one: none, one, two or three strings
FieldPrefixes == {<<>>, <<1, 97>>, <<0, 0>>, <<1, 97, 0, 2, 195, 169>>}

\* the payload of one valid offer and of one valid chunk, cut at every length
CutPayloads ==
    LET offer == encode_string(encode_string(encode_string(<<>>, <<105, 100>>), <<97>>),
                               <<195, 169>>) \o <<255, 255, 255, 255, 255, 255, 255, 255, 255, 1>>
        chunk == <<2, 105, 100, 172, 2, 0, 255>>
    IN  {SubSeq(offer, 1, k) : k \in 0..Len(offer)} \cup {SubSeq(chunk, 1, k) : k \in 0..Len(chunk)}

\* envelope payloads around the nonce length
EnvelopeRaw ==
    {Pattern(n) : n \in {0, 1} \cup ((ENVELOPE_NONCE_LEN - 1)..(ENVELOPE_NONCE_LEN + MaxCipherLen))}

RawPayloads ==
    {p \o h : p \in FieldPrefixes, h \in HostileStrings} \cup CutPayloads \cup EnvelopeRaw

NoValue == [none |-> TRUE]
NoPayloadResult == [ok |-> FALSE, err |-> [kind |-> "not called"]]

(***************************************************************************)
(* The authenticated encryption the bindings call: XChaCha20Poly1305 of    *)
(* the chacha20poly1305 crate, a 32-byte key, a 24-byte nonce, a 16-byte   *)
(* tag appended to the ciphertext.  The primitive is no part of the        *)
(* repository.  It is modelled by a cipher of the same construction on a   *)
(* small scale: a keystream derived from key and nonce is added to the     *)
(* plaintext, and a tag computed from key, nonce and ciphertext is         *)
(* appended; decryption recomputes the tag and fails unless it matches.    *)
(***************************************************************************)
KEY_LEN == 32
TAG_LEN == 16
TagModulus == 251

Keystream(key, nonce, i) ==
    (key[((i - 1) % KEY_LEN) + 1] + nonce[((i - 1) % ENVELOPE_NONCE_LEN) + 1] + i) % 256

\* the authenticator: a keyed weighted sum of the ciphertext bytes, no weight zero
RECURSIVE Mac(_, _, _, _)
Mac(body, lo, hi, r) ==
    IF lo > hi THEN 0
    ELSE IF lo = hi THEN (body[lo] * (1 + ((lo * r) % (TagModulus - 1)))) % TagModulus
    ELSE LET mid == (lo + hi) \div 2
         IN  (Mac(body, lo, mid, r) + Mac(body, mid + 1, hi, r)) % TagModulus

AeadTag(key, nonce, body) ==
    LET r == 1 + ((key[1] + nonce[1]) % (TagModulus - 1))
        h == Mac(body, 1, Len(body), r)
    IN  [j \in 1..TAG_LEN |->
            (h + Len(body) + key[j] + 3 * key[j + TAG_LEN] + 5 * nonce[j]
               + 7 * nonce[j + ENVELOPE_NONCE_LEN - TAG_LEN]) % TagModulus]

\* cipher.encrypt(nonce, plaintext): ciphertext of the plaintext's length, then the tag
aead_encrypt(key, nonce, plaintext) ==
    \* (the ciphertext is bound by a quantifier: it is computed once)
    CHOOSE sealed \in
        {Ok(body \o AeadTag(key, nonce, body)) :
            body \in {<<>> \o [i \in 1..Len(plaintext) |->
                                (plaintext[i] + Keystream(key, nonce, i)) % 256]}} : TRUE

\* cipher.decrypt(nonce, ciphertext): Err unless the tag verifies
aead_decrypt(key, nonce, ciphertext) ==
    IF Len(ciphertext) < TAG_LEN THEN Err([kind |-> "aead"])
    ELSE LET body == SubSeq(ciphertext, 1, Len(ciphertext) - TAG_LEN)
             tag == SubSeq(ciphertext, Len(ciphertext) - TAG_LEN + 1, Len(ciphertext))
         IN  IF AeadTag(key, nonce, body) # tag THEN Err([kind |-> "aead"])
             ELSE Ok([i \in 1..Len(body) |-> (body[i] + 256 - Keystream(key, nonce, i)) % 256])

(***************************************************************************)
(* wasm-p2p/src/lib.rs: the bindings exported to JavaScript.  A binding    *)
(* returns a value or a JsValue error; a panic inside it is a trap.  With  *)
(* the outcome the model records how far the call got: whether it decoded  *)
(* the outer frame, ran a payload decoder, called the cipher.              *)
(***************************************************************************)
JsErr(msg) == [ok |-> FALSE, err |-> [kind |-> "js", msg |-> msg]]
\* JsValue::from_str(&format!("<msg>: {e:?}"))
JsErrOf(msg, e) == [ok |-> FALSE, err |-> [kind |-> "js", msg |-> msg, cause |-> e]]

Ran(res, decoded, parsed, decrypted) ==
    [res |-> res, decoded |-> decoded, parsed |-> parsed, decrypted |-> decrypted]

\* `.map_err(|e| ...)?` on a decoder's result: a panic is no Err to map
MapErr(msg, e) == IF e.kind = "panic" THEN Err(e) ELSE JsErrOf(msg, e)

\* the index of the highest set bit of v, counted from 1; 0 if v is zero
TopBit(v) == IF \A k \in 1..Len(v) : v[k] = 0 THEN 0
             ELSE CHOOSE k \in 1..Len(v) : v[k] = 1 /\ \A j \in (k + 1)..Len(v) : v[j] = 0

\* `size as f64`: the nearest double, ties to even; the double's value as an
\* integer of 65 bits (u64::MAX rounds to 2^64)
AsF64(v) ==
    LET top == TopBit(v)
        drop == top - 53
        wide == [k \in 1..(Len(v) + 1) |-> IF k <= Len(v) THEN v[k] ELSE 0]
    IN  IF drop <= 0 THEN wide
        ELSE LET half == v[drop] = 1
                 sticky == \E k \in 1..(drop - 1) : v[k] = 1
                 odd == v[drop + 1] = 1
                 kept == [k \in 1..(Len(v) + 1) |-> IF k <= drop THEN 0 ELSE wide[k]]
                 \* kept + 2^drop: the carry runs up to the first zero bit
                 stop == CHOOSE k \in (drop + 1)..(Len(v) + 1) :
                            kept[k] = 0 /\ \A j \in (drop + 1)..(k - 1) : kept[j] = 1
                 up == [k \in 1..(Len(v) + 1) |->
                            IF k <= drop THEN 0 ELSE IF k < stop THEN 0
                            ELSE IF k = stop THEN 1 ELSE kept[k]]
             IN  IF half /\ (sticky \/ odd) THEN up ELSE kept

\* holi_p2p::frame::decode_v1(bytes, 1024 * 1024)
DecodeOuterFrame(bytes) == decode_v1(bytes, BindingMax)

\* `.map_err(|e| JsValue::from_str(&format!("decode error: {e:?}")))?` and the
\* comparison of frame.frame_type with the binding's type: the error the
\* binding returns before it looks at the payload, if it returns one
Rejected(d, msg) ==
    IF ~d.ok THEN Ran(MapErr("decode error", d.err), TRUE, FALSE, FALSE)
    ELSE Ran(JsErr(msg), TRUE, FALSE, FALSE)

\* what the binding returns once its payload decoder has returned r: the
\* mapped error, or the value `shaped` built from r.value
Parsed(r, shaped) ==
    IF ~r.ok THEN Ran(MapErr("decode payload error", r.err), TRUE, TRUE, FALSE)
    ELSE Ran(Ok(shaped), TRUE, TRUE, FALSE)

\* pub fn decode_frame_type_v1(bytes: &[u8]) -> Result<u8, JsValue>
FrameTypeOf(d) ==
    IF ~d.ok THEN Rejected(d, "") ELSE Ran(Ok(TagOf(d.frame.frame_type)), TRUE, FALSE, FALSE)
decode_frame_type_v1(bytes) == FrameTypeOf(DecodeOuterFrame(bytes))

\* pub fn decode_chat_text_payload_v1(bytes: &[u8]) -> Result<String, JsValue>
ChatTextOf(d) ==
    IF ~d.ok \/ d.frame.frame_type # "ChatText" THEN Rejected(d, "not ChatText")
    ELSE IF ~from_utf8(d.frame.payload) THEN Ran(JsErr("payload not utf-8"), TRUE, TRUE, FALSE)
    ELSE Ran(Ok(d.frame.payload), TRUE, TRUE, FALSE)
decode_chat_text_payload_v1(bytes) == ChatTextOf(DecodeOuterFrame(bytes))

\* pub fn decode_file_offer_v1(bytes: &[u8]) -> Result<JsValue, JsValue>
OfferObject(offer) ==
    Parsed(offer, IF ~offer.ok THEN NoValue
                  ELSE [id |-> offer.value.id, filename |-> offer.value.filename,
                        mimeType |-> offer.value.mime_type, size |-> AsF64(offer.value.size)])
FileOfferOf(d) ==
    IF ~d.ok \/ d.frame.frame_type # "FileOffer" THEN Rejected(d, "not FileOffer")
    ELSE OfferObject(decode_file_offer_payload_v1(d.frame.payload))
decode_file_offer_v1(bytes) == FileOfferOf(DecodeOuterFrame(bytes))

\* pub fn decode_file_accept_id_v1(bytes: &[u8]) -> Result<String, JsValue>
IdString(id) == Parsed(id, IF ~id.ok THEN NoValue ELSE id.value.id)
\* a binding that parses the payload whatever the frame's type
FileAcceptOf_Unchecked(d) ==
    IF ~d.ok THEN Rejected(d, "not FileAccept")
    ELSE IdString(decode_file_accept_payload_v1(d.frame.payload))
FileAcceptOf(d) ==
    IF ~d.ok \/ d.frame.frame_type # "FileAccept" THEN Rejected(d, "not FileAccept")
    ELSE IdString(decode_file_accept_payload_v1(d.frame.payload))
decode_file_accept_id_v1(bytes) == FileAcceptOf(DecodeOuterFrame(bytes))

\* pub fn decode_file_reject_v1(bytes: &[u8]) -> Result<JsValue, JsValue>
RejectObject(rej) ==
    Parsed(rej, IF ~rej.ok THEN NoValue ELSE [id |-> rej.value.id, reason |-> rej.value.reason])
FileRejectOf(d) ==
    IF ~d.ok \/ d.frame.frame_type # "FileReject" THEN Rejected(d, "not FileReject")
    ELSE RejectObject(decode_file_reject_payload_v1(d.frame.payload))
decode_file_reject_v1(bytes) == FileRejectOf(DecodeOuterFrame(bytes))

\* pub fn decode_file_chunk_v1(bytes: &[u8]) -> Result<JsValue, JsValue>
\* (`chunk.chunk_index as f64` is exact for a u32)
ChunkObject(chunk) ==
    Parsed(chunk, IF ~chunk.ok THEN NoValue
                  ELSE [id |-> chunk.value.id, chunkIndex |-> chunk.value.chunk_index,
                        data |-> chunk.value.data])
FileChunkOf(d) ==
    IF ~d.ok \/ d.frame.frame_type # "FileChunk" THEN Rejected(d, "not FileChunk")
    ELSE ChunkObject(decode_file_chunk_payload_v1(d.frame.payload))
decode_file_chunk_v1(bytes) == FileChunkOf(DecodeOuterFrame(bytes))

\* pub fn decode_file_end_id_v1(bytes: &[u8]) -> Result<String, JsValue>
FileEndOf(d) ==
    IF ~d.ok \/ d.frame.frame_type # "FileEnd" THEN Rejected(d, "not FileEnd")
    ELSE IdString(decode_file_end_payload_v1(d.frame.payload))
decode_file_end_id_v1(bytes) == FileEndOf(DecodeOuterFrame(bytes))

\* fn parse_key_32(key_bytes: &[u8]) -> Result<[u8; 32], JsValue>
parse_key_32(key_bytes) ==
    IF Len(key_bytes) # KEY_LEN THEN JsErr("key must be 32 bytes") ELSE Ok(key_bytes)

\* fn parse_nonce_24(nonce_bytes: &[u8]) -> Result<[u8; 24], JsValue>
parse_nonce_24(nonce_bytes) ==
    IF Len(nonce_bytes) # ENVELOPE_NONCE_LEN THEN JsErr("nonce must be 24 bytes")
    ELSE Ok(nonce_bytes)

\* cipher.encrypt(...).map_err(|_| "encrypt failed")?, then
\* Ok(encode_encrypted_envelope_v1(&nonce, &ct))
SealedEnvelope(nonce, ct) ==
    IF ~ct.ok THEN JsErr("encrypt failed") ELSE Ok(encode_encrypted_envelope_v1(nonce, ct.value))

\* pub fn encrypt_envelope_v1_with_nonce(key_bytes, nonce_bytes, inner_frame_bytes)
encrypt_envelope_v1_with_nonce(key_bytes, nonce_bytes, inner_frame_bytes) ==
    IF ~parse_key_32(key_bytes).ok THEN parse_key_32(key_bytes)
    ELSE IF ~parse_nonce_24(nonce_bytes).ok THEN parse_nonce_24(nonce_bytes)
    ELSE SealedEnvelope(nonce_bytes, aead_encrypt(key_bytes, nonce_bytes, inner_frame_bytes))

\* pub fn encrypt_envelope_v1(key_bytes, inner_frame_bytes), with `nonce` the
\* 24 bytes that OsRng.fill_bytes wrote
encrypt_envelope_v1(key_bytes, nonce, inner_frame_bytes) ==
    IF ~parse_key_32(key_bytes).ok THEN parse_key_32(key_bytes)
    ELSE SealedEnvelope(nonce, aead_encrypt(key_bytes, nonce, inner_frame_bytes))

\* a binding that returns what it has when the cipher refuses: `unwrap_or_default()`
Opened_Lenient(pt) == Ran(Ok(IF pt.ok THEN pt.value ELSE <<>>), TRUE, TRUE, TRUE)

\* cipher.decrypt(...).map_err(|_| "decrypt failed")?, then Ok(pt)
Opened(pt) ==
    IF ~pt.ok THEN Ran(JsErr("decrypt failed"), TRUE, TRUE, TRUE)
    ELSE Ran(Ok(pt.value), TRUE, TRUE, TRUE)

OpenedParts(key, parts) ==
    IF ~parts.ok THEN Ran(MapErr("decode payload error", parts.err), TRUE, TRUE, FALSE)
    ELSE Opened(aead_decrypt(key, parts.value.nonce, parts.value.ciphertext))

EnvelopeOf(key, d) ==
    IF ~d.ok \/ d.frame.frame_type # "EncryptedEnvelope"
    THEN Rejected(d, "not EncryptedEnvelope")
    ELSE OpenedParts(key, decode_encrypted_envelope_payload_v1(d.frame.payload))

\* pub fn decrypt_envelope_v1(key_bytes: &[u8], envelope_frame_bytes: &[u8])
decrypt_envelope_v1(key_bytes, envelope_frame_bytes) ==
    IF ~parse_key_32(key_bytes).ok THEN Ran(parse_key_32(key_bytes), FALSE, FALSE, FALSE)
    ELSE EnvelopeOf(key_bytes, DecodeOuterFrame(envelope_frame_bytes))

(***************************************************************************)
(* The state of each harness before its first call                         *)
(***************************************************************************)
\* the targets the crate is built for
UsizeWidths == {32, 64}
AnyTarget == usize \in UsizeWidths
\* varint.rs does no usize arithmetic but `i + 1` with i < 10
NativeTarget == usize = 64
\* the bindings are wasm-bindgen exports: JsValue exists on wasm32 only
WasmTarget == usize = 32

VarintIdle ==
    /\ vpc = "idle"
    /\ vwidth = 32
    /\ value = <<>>
    /\ out = <<>>
    /\ base = 0
    /\ vinput = <<>>
    /\ vresult = NoResult

FrameIdle ==
    /\ fpc = "idle"
    /\ sent = <<>>
    /\ wire = <<>>
    /\ ends = <<>>
    /\ how = NoHow
    /\ finput = <<>>
    /\ fmax = <<>>
    /\ fresult = NoFrameResult

PayloadIdle ==
    /\ ppc = "idle"
    /\ pkind = "none"
    /\ pvalue = NoValue
    /\ pwire = <<>>
    /\ pframe = NoFrameResult
    /\ ppayload = <<>>
    /\ presult = NoPayloadResult

StreamIdle ==
    /\ conn = "open"
    /\ sframes = <<>>
    /\ swire = <<>>
    /\ arrived = 0
    /\ rbuf = <<>>
    /\ delivered = <<>>

Threads == 1..MaxThreads
NoCall == [fn |-> "none", frame |-> Frame("Ping", 0, <<>>), v |-> <<>>, input |-> <<>>,
           max |-> <<>>, prefill |-> <<>>]

ThreadIdle ==
    /\ tpc = [t \in Threads |-> "idle"]
    /\ tcall = [t \in Threads |-> NoCall]
    /\ tlocal = [t \in Threads |-> <<>>]
    /\ tret = [t \in Threads |-> NoValue]
    /\ heap = [t \in Threads |-> <<>>]

NoTamper == [kind |-> "none", pos |-> 0, bit |-> 0]
NoInner == [framed |-> FALSE, frame |-> Frame("Ping", 0, <<>>), fill |-> 0]
NoRan == Ran(NoPayloadResult, FALSE, FALSE, FALSE)

BindIdle ==
    /\ bpc = "idle"
    /\ bfn = "none"
    /\ bkey = <<>>
    /\ bnonce = <<>>
    /\ binner = NoInner
    /\ bsealed = NoPayloadResult
    /\ bsecond = <<>>
    /\ btamper = NoTamper
    /\ bopenkey = <<>>
    /\ bbytes = <<>>
    /\ bresult = NoRan

\* AccessControlList::new()
AclIdle ==
    /\ permissions = <<>>
    /\ aclops = <<>>

Workers == {"w1", "w2"}
NoOwner == "none"
NoStoreCall == [op |-> "none", path |-> "", data |-> <<>>]
NoDone == [call |-> NoStoreCall, ret |-> NoValue]

\* InMemoryStorage::new()
StoreIdle ==
    /\ files = <<>>
    /\ mutex = NoOwner
    /\ spc = [t \in Workers |-> "idle"]
    /\ scall = [t \in Workers |-> NoStoreCall]
    /\ listed = [t \in Workers |-> <<>>]
    /\ mutations = <<>>
    /\ sdone = NoDone

None == [some |-> FALSE]
Some(x) == [some |-> TRUE, v |-> x]

\* no handshake object constructed yet
PakeIdle ==
    /\ ktype = "none"
    /\ state = None
    /\ outbound_msg = <<>>
    /\ finishes = <<>>
    /\ shown = {}

RestIdle == ThreadIdle /\ BindIdle /\ AclIdle /\ StoreIdle /\ PakeIdle

(***************************************************************************)
(* The varint harness: calls of the four functions of varint.rs            *)
(***************************************************************************)
CallEncodeU32 ==
    /\ vpc = "idle"
    /\ \E v \in U32Samples, pre \in Prefills :
        /\ value' = v
        /\ base' = Len(pre)
        /\ out' = encode_u32_varint(v, pre)
    /\ vpc' = "encoded"
    /\ vwidth' = 32
    /\ UNCHANGED <<vinput, vresult>>

CallEncodeU64 ==
    /\ vpc = "idle"
    /\ \E v \in U64Samples, pre \in Prefills :
        /\ value' = v
        /\ base' = Len(pre)
        /\ out' = encode_u64_varint(v, pre)
    /\ vpc' = "encoded"
    /\ vwidth' = 64
    /\ UNCHANGED <<vinput, vresult>>

\* the round trip of the tests: decode the bytes the encoder has just appended
CallDecodeEncoded ==
    /\ vpc = "encoded"
    /\ vpc' = "decoded"
    /\ vinput' = SubSeq(out, base + 1, Len(out))
    /\ vresult' = IF vwidth = 32 THEN decode_u32_varint(vinput') ELSE decode_u64_varint(vinput')
    /\ UNCHANGED <<vwidth, value, out, base>>

CallDecodeRawU32 ==
    /\ vpc = "idle"
    /\ \E raw \in RawVarints, tail \in RawTails :
        /\ vinput' = raw \o tail
        /\ vresult' = decode_u32_varint(raw \o tail)
    /\ vpc' = "raw"
    /\ vwidth' = 32
    /\ UNCHANGED <<value, out, base>>

CallDecodeRawU64 ==
    /\ vpc = "idle"
    /\ \E raw \in RawVarints, tail \in RawTails :
        /\ vinput' = raw \o tail
        /\ vresult' = decode_u64_varint(raw \o tail)
    /\ vpc' = "raw"
    /\ vwidth' = 64
    /\ UNCHANGED <<value, out, base>>

VarintReset ==
    /\ vpc \in {"decoded", "raw"}
    /\ vpc' = "idle"
    /\ vwidth' = 32
    /\ value' = <<>>
    /\ out' = <<>>
    /\ base' = 0
    /\ vinput' = <<>>
    /\ vresult' = NoResult

InitVarint == NativeTarget /\ VarintIdle /\ FrameIdle /\ StreamIdle /\ PayloadIdle /\ RestIdle

NextVarint ==
    \/ CallEncodeU32 /\ UNCHANGED notVarint
    \/ CallEncodeU64 /\ UNCHANGED notVarint
    \/ CallDecodeEncoded /\ UNCHANGED notVarint
    \/ CallDecodeRawU32 /\ UNCHANGED notVarint
    \/ CallDecodeRawU64 /\ UNCHANGED notVarint
    \/ VarintReset /\ UNCHANGED notVarint

SpecVarint == InitVarint /\ [][NextVarint]_vars

(***************************************************************************)
(* The frame harness: calls of encode_v1 and decode_v1                     *)
(***************************************************************************)
\* the caller's loop of spec 4.2 step 8: decode one frame, advance by the
\* consumed length, decode the remainder again, until decode_v1 fails
RECURSIVE DecodeAllLoop(_, _, _)
DecodeAllLoop(buf, max_payload_len, acc) ==
    LET r == decode_v1(buf, max_payload_len) IN
    IF r.ok
    THEN DecodeAllLoop(SubSeq(buf, r.used + 1, Len(buf)), max_payload_len, Append(acc, r.frame))
    ELSE [frames |-> acc, rest |-> buf, last |-> r]

\* encode_v1(&frame, &mut wire): one more frame appended to the buffer
EncodeFrame ==
    /\ fpc \in {"idle", "built"}
    /\ Len(sent) < MaxFrames
    /\ \E f \in (IF sent = <<>> THEN Frames ELSE NextFrames) :
        /\ wire' = encode_v1(f, wire)
        /\ sent' = Append(sent, f)
        /\ ends' = Append(ends, Len(wire'))
    /\ fpc' = "built"
    /\ UNCHANGED <<how, finput, fmax, fresult>>

\* decode_v1 on the buffer, possibly followed by further bytes
DecodeWire ==
    /\ fpc = "built"
    /\ \E x \in Trailers,
          m \in (IF Len(sent) = 1 THEN MaxChoices(Len(sent[1].payload))
                 ELSE {FromNat(Len(sent[1].payload), 32), BindingMax}) :
        /\ how' = [kind |-> "wire", trailer |-> x]
        /\ finput' = wire \o x
        /\ fmax' = m
        /\ fresult' = decode_v1(finput', m)
    /\ fpc' = "called"
    /\ UNCHANGED <<sent, wire, ends>>

\* decode_v1 on a strict prefix of one encoded frame
DecodePrefix ==
    /\ fpc = "built"
    /\ Len(sent) = 1
    /\ \E k \in 0..(Len(wire) - 1), m \in PrefixMaxChoices(Len(sent[1].payload)) :
        /\ how' = [kind |-> "prefix", k |-> k]
        /\ finput' = SubSeq(wire, 1, k)
        /\ fmax' = m
        /\ fresult' = decode_v1(finput', m)
    /\ fpc' = "called"
    /\ UNCHANGED <<sent, wire, ends>>

\* decode_v1 on one encoded frame with one of its five fixed header bytes
\* overwritten by another value
DecodeTampered ==
    /\ fpc = "built"
    /\ Len(sent) = 1
    /\ sent[1] \in TamperFrames
    /\ \E i \in 1..5, b \in 0..255 :
        /\ b # wire[i]
        /\ how' = [kind |-> "tamper", at |-> i, byte |-> b]
        /\ finput' = [wire EXCEPT ![i] = b]
    /\ fmax' = BindingMax
    /\ fresult' = decode_v1(finput', fmax')
    /\ fpc' = "called"
    /\ UNCHANGED <<sent, wire, ends>>

\* decode_v1 on bytes no encoder of this crate produced
DecodeForged ==
    /\ fpc = "idle"
    /\ \E m0 \in ForgedMagic0, m1 \in ForgedMagic1, v \in ForgedVersion, t \in ForgedType,
          l \in ForgedLens, tail \in ForgedTails, m \in ForgedMax :
        \E keep \in ForgedKeeps(5 + Len(l.bytes) + Len(tail)) :
        /\ how' = [kind |-> "forged", len |-> l, tail |-> tail]
        /\ finput' = SubSeq(<<m0, m1, v, t, 0>> \o l.bytes \o tail, 1, keep)
        /\ fmax' = m
        /\ fresult' = decode_v1(finput', m)
    /\ fpc' = "called"
    /\ UNCHANGED <<sent, wire, ends>>

\* decode, advance, decode again over the whole buffer
DecodeAll ==
    /\ fpc = "built"
    /\ how' = [kind |-> "all"]
    /\ finput' = wire
    /\ fmax' = BindingMax
    /\ fresult' = DecodeAllLoop(wire, BindingMax, <<>>)
    /\ fpc' = "called"
    /\ UNCHANGED <<sent, wire, ends>>

FrameReset ==
    /\ fpc = "called"
    /\ fpc' = "idle"
    /\ sent' = <<>>
    /\ wire' = <<>>
    /\ ends' = <<>>
    /\ how' = NoHow
    /\ finput' = <<>>
    /\ fmax' = <<>>
    /\ fresult' = NoFrameResult

InitFrame == AnyTarget /\ FrameIdle /\ VarintIdle /\ StreamIdle /\ PayloadIdle /\ RestIdle

NextFrame ==
    \/ EncodeFrame /\ UNCHANGED notFrame
    \/ DecodeWire /\ UNCHANGED notFrame
    \/ DecodePrefix /\ UNCHANGED notFrame
    \/ DecodeTampered /\ UNCHANGED notFrame
    \/ DecodeForged /\ UNCHANGED notFrame
    \/ DecodeAll /\ UNCHANGED notFrame
    \/ FrameReset /\ UNCHANGED notFrame

SpecFrame == InitFrame /\ [][NextFrame]_vars

(***************************************************************************)
(* The encoders alone: encode_v1 and the two varint encoders, one call     *)
(* sequence at a time, each appending to a buffer that may hold bytes      *)
(***************************************************************************)
InitEncode == AnyTarget /\ FrameIdle /\ VarintIdle /\ StreamIdle /\ PayloadIdle /\ RestIdle

NextEncode ==
    \/ vpc = "idle" /\ EncodeFrame /\ UNCHANGED notFrame
    \/ vpc = "idle" /\ DecodeAll /\ UNCHANGED notFrame
    \/ vpc = "idle" /\ FrameReset /\ UNCHANGED notFrame
    \/ fpc = "idle" /\ CallEncodeU32 /\ UNCHANGED notVarint
    \/ fpc = "idle" /\ CallEncodeU64 /\ UNCHANGED notVarint
    \/ fpc = "idle" /\ CallDecodeEncoded /\ UNCHANGED notVarint
    \/ fpc = "idle" /\ VarintReset /\ UNCHANGED notVarint

SpecEncode == InitEncode /\ [][NextEncode]_vars

(***************************************************************************)
(* Encoders and decoders side by side: the varint encoders, the varint     *)
(* decoders on a peer's bytes, and decode_v1 on hand-made frames, one call *)
(* sequence at a time                                                      *)
(***************************************************************************)
InitPadded == NativeTarget /\ FrameIdle /\ VarintIdle /\ StreamIdle /\ PayloadIdle /\ RestIdle

NextPadded ==
    \/ vpc = "idle" /\ DecodeForged /\ UNCHANGED notFrame
    \/ vpc = "idle" /\ FrameReset /\ UNCHANGED notFrame
    \/ fpc = "idle" /\ CallEncodeU32 /\ UNCHANGED notVarint
    \/ fpc = "idle" /\ CallEncodeU64 /\ UNCHANGED notVarint
    \/ fpc = "idle" /\ CallDecodeEncoded /\ UNCHANGED notVarint
    \/ fpc = "idle" /\ CallDecodeRawU32 /\ UNCHANGED notVarint
    \/ fpc = "idle" /\ CallDecodeRawU64 /\ UNCHANGED notVarint
    \/ fpc = "idle" /\ VarintReset /\ UNCHANGED notVarint

SpecPadded == InitPadded /\ [][NextPadded]_vars

(***************************************************************************)
(* The stream receiver of spec.md section 5, around decode_v1              *)
(***************************************************************************)
\* the sender encodes one more frame onto the stream
StreamSend ==
    /\ conn = "open"
    /\ Len(sframes) < MaxStreamFrames
    /\ \E f \in StreamFrames :
        /\ sframes' = Append(sframes, f)
        /\ swire' = encode_v1(f, swire)
    /\ UNCHANGED <<conn, arrived, rbuf, delivered>>

\* the receiver's handler for the arrival of the next k bytes: append them to
\* the buffer, decode and advance while decode_v1 succeeds, keep the buffer and
\* wait on UnexpectedEof, drop the connection on any other error
StreamReceive(k) ==
    /\ conn = "open"
    /\ k >= 1
    /\ arrived + k <= Len(swire)
    /\ LET buf == rbuf \o SubSeq(swire, arrived + 1, arrived + k)
           r == DecodeAllLoop(buf, BindingMax, <<>>)
       IN  /\ delivered' = delivered \o r.frames
           /\ rbuf' = r.rest
           /\ conn' = IF r.last.err = UnexpectedEof THEN "open" ELSE "dropped"
    /\ arrived' = arrived + k
    /\ UNCHANGED <<sframes, swire>>

StreamArrive ==
    \E k \in (1..MaxChunk) \cup {Len(swire) - arrived} : StreamReceive(k)

InitStream == AnyTarget /\ StreamIdle /\ VarintIdle /\ FrameIdle /\ PayloadIdle /\ RestIdle

NextStream ==
    \/ StreamSend /\ UNCHANGED notStream
    \/ StreamArrive /\ UNCHANGED notStream

SpecStream == InitStream /\ [][NextStream]_vars

(***************************************************************************)
(* The typed payload harness: a typed encoder, decode_v1, the payload      *)
(* decoder of the frame's type; and payload decoders on a peer's bytes     *)
(***************************************************************************)
Encoded(kind, v, bytes) ==
    /\ pkind' = kind
    /\ pvalue' = v
    /\ pwire' = bytes
    /\ ppc' = "encoded"
    /\ UNCHANGED <<pframe, ppayload, presult>>

EncodeFileOffer ==
    /\ ppc = "idle"
    /\ \E offer \in FileOffers : Encoded("FileOffer", offer, encode_file_offer_v1(offer))

EncodeFileAccept ==
    /\ ppc = "idle"
    /\ \E id \in StringSamples : Encoded("FileAccept", [id |-> id], encode_file_accept_v1(id))

EncodeFileReject ==
    /\ ppc = "idle"
    /\ \E r \in FileRejects : Encoded("FileReject", r, encode_file_reject_v1(r.id, r.reason))

EncodeFileChunk ==
    /\ ppc = "idle"
    /\ \E c \in FileChunks :
        Encoded("FileChunk", c, encode_file_chunk_v1(c.id, c.chunk_index, c.data))

EncodeFileEnd ==
    /\ ppc = "idle"
    /\ \E id \in StringSamples : Encoded("FileEnd", [id |-> id], encode_file_end_v1(id))

EncodeEncryptedEnvelope ==
    /\ ppc = "idle"
    /\ \E nonce \in NonceSamples, ciphertext \in CipherSamples :
        Encoded("EncryptedEnvelope", [nonce |-> nonce, ciphertext |-> ciphertext],
                encode_encrypted_envelope_v1(nonce, ciphertext))

\* the receiver decodes the outer frame with the bindings' bound
DecodeOuter ==
    /\ ppc = "encoded"
    /\ pframe' = decode_v1(pwire, BindingMax)
    /\ ppayload' = IF pframe'.ok THEN pframe'.frame.payload ELSE <<>>
    /\ ppc' = "framed"
    /\ UNCHANGED <<pkind, pvalue, pwire, presult>>

\* and hands the payload to the decoder of the frame's type
DecodeTyped ==
    /\ ppc = "framed"
    /\ pframe.ok
    /\ pframe.frame.frame_type \in PayloadKinds
    /\ presult' = DecodePayloadOf(pframe.frame.frame_type, ppayload)
    /\ ppc' = "decoded"
    /\ UNCHANGED <<pkind, pvalue, pwire, pframe, ppayload>>

\* a payload decoder called on bytes no encoder of this crate produced
DecodeRawPayload ==
    /\ ppc = "idle"
    /\ \E kind \in PayloadKinds, raw \in RawPayloads :
        /\ pkind' = kind
        /\ ppayload' = raw
        /\ presult' = DecodePayloadOf(kind, raw)
    /\ ppc' = "raw"
    /\ UNCHANGED <<pvalue, pwire, pframe>>

\* decode_string itself on such bytes
CallDecodeString ==
    /\ ppc = "idle"
    /\ \E raw \in RawPayloads :
        /\ ppayload' = raw
        /\ presult' = decode_string(raw)
    /\ pkind' = "String"
    /\ ppc' = "raw"
    /\ UNCHANGED <<pvalue, pwire, pframe>>

PayloadReset ==
    /\ ppc \in {"decoded", "raw"}
    /\ ppc' = "idle"
    /\ pkind' = "none"
    /\ pvalue' = NoValue
    /\ pwire' = <<>>
    /\ pframe' = NoFrameResult
    /\ ppayload' = <<>>
    /\ presult' = NoPayloadResult

InitPayload == AnyTarget /\ PayloadIdle /\ VarintIdle /\ FrameIdle /\ StreamIdle /\ RestIdle

NextPayload ==
    \/ EncodeFileOffer /\ UNCHANGED notPayload
    \/ EncodeFileAccept /\ UNCHANGED notPayload
    \/ EncodeFileReject /\ UNCHANGED notPayload
    \/ EncodeFileChunk /\ UNCHANGED notPayload
    \/ EncodeFileEnd /\ UNCHANGED notPayload
    \/ EncodeEncryptedEnvelope /\ UNCHANGED notPayload
    \/ DecodeOuter /\ UNCHANGED notPayload
    \/ DecodeTyped /\ UNCHANGED notPayload
    \/ DecodeRawPayload /\ UNCHANGED notPayload
    \/ CallDecodeString /\ UNCHANGED notPayload
    \/ PayloadReset /\ UNCHANGED notPayload

SpecPayload == InitPayload /\ [][NextPayload]_vars

(***************************************************************************)
(* Payload decoders on a payload with bytes behind its last field: a typed *)
(* encoder, decode_v1, then the payload decoder of the frame's type on the *)
(* payload followed by further bytes                                       *)
(***************************************************************************)
\* bytes put behind a payload: a zero byte, 0xFF, a continuation byte, a
\* well-formed one-letter string
TrailingSamples == {<<0>>, <<255>>, <<128>>, <<1, 97>>}

DecodeTrailing ==
    /\ ppc = "framed"
    /\ pframe.ok
    /\ pframe.frame.frame_type \in PayloadKinds
    /\ \E x \in TrailingSamples :
        /\ ppayload' = ppayload \o x
        /\ presult' = DecodePayloadOf(pframe.frame.frame_type, ppayload \o x)
    /\ ppc' = "trailed"
    /\ UNCHANGED <<pkind, pvalue, pwire, pframe>>

TrailingReset ==
    /\ ppc = "trailed"
    /\ ppc' = "idle"
    /\ pkind' = "none"
    /\ pvalue' = NoValue
    /\ pwire' = <<>>
    /\ pframe' = NoFrameResult
    /\ ppayload' = <<>>
    /\ presult' = NoPayloadResult

InitTrailing == AnyTarget /\ PayloadIdle /\ VarintIdle /\ FrameIdle /\ StreamIdle /\ RestIdle

NextTrailing ==
    \/ EncodeFileOffer /\ UNCHANGED notPayload
    \/ EncodeFileAccept /\ UNCHANGED notPayload
    \/ EncodeFileReject /\ UNCHANGED notPayload
    \/ EncodeFileChunk /\ UNCHANGED notPayload
    \/ EncodeFileEnd /\ UNCHANGED notPayload
    \/ EncodeEncryptedEnvelope /\ UNCHANGED notPayload
    \/ DecodeOuter /\ UNCHANGED notPayload
    \/ DecodeTrailing /\ UNCHANGED notPayload
    \/ TrailingReset /\ UNCHANGED notPayload

SpecTrailing == InitTrailing /\ [][NextTrailing]_vars

(***************************************************************************)
(* Threads calling the codec concurrently.  A call is executed statement by *)
(* statement, and the statements of different threads interleave in any     *)
(* order.  The codec has no static and no global: all a call touches is    *)
(* its arguments, its locals and the buffer it was handed.                  *)
(***************************************************************************)
\* mutant of OwnBuffer: every call is handed the same buffer
OwnBuffer_Shared(t) == 1

\* the buffer a call of thread t is handed: `out: &mut Vec<u8>` and
\* `input: &[u8]` borrow a buffer of the caller, and no other thread holds it
OwnBuffer(t) == t

ThreadCall(fn, frame, v, input, max, prefill) ==
    [fn |-> fn, frame |-> frame, v |-> v, input |-> input, max |-> max, prefill |-> prefill]

ThreadFrames == {Frame("ChatText", 0, <<104, 105>>), Frame("FileChunk", 170, Pattern(130))}

\* the calls a thread may make: both frame functions and the four varint
\* functions, on inputs that succeed and on inputs that fail
ThreadCalls ==
    {ThreadCall("encode_v1", f, <<>>, <<>>, <<>>, <<>>) : f \in ThreadFrames} \cup
    {ThreadCall("encode_v1", Frame("ChatText", 0, <<104, 105>>), <<>>, <<>>, <<>>, <<238, 128>>)} \cup
    {ThreadCall("decode_v1", NoCall.frame, <<>>, i, FromNat(64, 32), <<>>) :
        i \in {encode_v1(Frame("Pong", 1, Pattern(33)), <<>>) \o <<72>>, <<72, 79, 1, 16, 0, 3, 1>>}} \cup
    {ThreadCall("encode_u32_varint", NoCall.frame, FromNat(300, 32), <<>>, <<>>, <<238, 128>>),
     ThreadCall("encode_u64_varint", NoCall.frame, FromNat(1234, 64), <<>>, <<>>, <<>>),
     ThreadCall("decode_u32_varint", NoCall.frame, <<>>, <<128, 128>>, <<>>, <<>>),
     ThreadCall("decode_u64_varint", NoCall.frame, <<>>, <<255, 255, 255, 255, 255, 1>>, <<>>, <<>>)}

IsEncoder(fn) == fn \in {"encode_v1", "encode_u32_varint", "encode_u64_varint"}

\* the caller of thread t fills its buffer and makes the call
ThreadStart(t) ==
    /\ tpc[t] = "idle"
    /\ \E c \in ThreadCalls :
        /\ tcall' = [tcall EXCEPT ![t] = c]
        /\ heap' = [heap EXCEPT ![t] = IF IsEncoder(c.fn) THEN c.prefill ELSE c.input]
        /\ tlocal' = [tlocal EXCEPT ![t] = c.v]
        /\ tpc' = [tpc EXCEPT ![t] = CASE c.fn = "encode_v1" -> "magic"
                                        [] c.fn \in {"encode_u32_varint", "encode_u64_varint"} -> "loop"
                                        [] OTHER -> "read"]
    /\ UNCHANGED tret

\* one statement of encode_v1 ahead of the call of encode_u32_varint
ThreadHeader(t) ==
    /\ tpc[t] \in {"magic", "version", "type", "flags"}
    /\ heap' = [heap EXCEPT ![OwnBuffer(t)] =
                    CASE tpc[t] = "magic" -> @ \o MAGIC
                      [] tpc[t] = "version" -> Append(@, VERSION_V1)
                      [] tpc[t] = "type" -> Append(@, TagOf(tcall[t].frame.frame_type))
                      [] tpc[t] = "flags" -> Append(@, tcall[t].frame.flags)]
    /\ tpc' = [tpc EXCEPT ![t] = CASE tpc[t] = "magic" -> "version"
                                    [] tpc[t] = "version" -> "type"
                                    [] tpc[t] = "type" -> "flags"
                                    [] tpc[t] = "flags" -> "len"]
    /\ UNCHANGED <<tcall, tlocal, tret>>

\* encode_v1 calls encode_u32_varint(frame.payload.len() as u32, out)
ThreadLen(t) ==
    /\ tpc[t] = "len"
    /\ tlocal' = [tlocal EXCEPT ![t] = FromNat(Len(tcall[t].frame.payload), 32)]
    /\ tpc' = [tpc EXCEPT ![t] = "loop"]
    /\ UNCHANGED <<tcall, tret, heap>>

\* one turn of `while value >= 0x80`, or the push that follows the loop
ThreadLoop(t) ==
    /\ tpc[t] = "loop"
    /\ IF GeX80(tlocal[t])
       THEN /\ heap' = [heap EXCEPT ![OwnBuffer(t)] = Append(@, Low7(tlocal[t]) + 128)]
            /\ tlocal' = [tlocal EXCEPT ![t] = Shr7(@)]
            /\ UNCHANGED tpc
       ELSE /\ heap' = [heap EXCEPT ![OwnBuffer(t)] = Append(@, AsU8(tlocal[t]))]
            /\ tpc' = [tpc EXCEPT ![t] = IF tcall[t].fn = "encode_v1" THEN "payload" ELSE "done"]
            /\ UNCHANGED tlocal
    /\ UNCHANGED <<tcall, tret>>

\* out.extend_from_slice(&frame.payload)
ThreadPayload(t) ==
    /\ tpc[t] = "payload"
    /\ heap' = [heap EXCEPT ![OwnBuffer(t)] = @ \o tcall[t].frame.payload]
    /\ tpc' = [tpc EXCEPT ![t] = "done"]
    /\ UNCHANGED <<tcall, tlocal, tret>>

\* a decoder reads the slice it was handed and returns
ThreadRead(t) ==
    /\ tpc[t] = "read"
    /\ tret' = [tret EXCEPT ![t] =
                    CASE tcall[t].fn = "decode_v1" -> decode_v1(heap[OwnBuffer(t)], tcall[t].max)
                      [] tcall[t].fn = "decode_u32_varint" -> decode_u32_varint(heap[OwnBuffer(t)])
                      [] tcall[t].fn = "decode_u64_varint" -> decode_u64_varint(heap[OwnBuffer(t)])]
    /\ tpc' = [tpc EXCEPT ![t] = "done"]
    /\ UNCHANGED <<tcall, tlocal, heap>>

\* the caller has looked at the outcome and drops its buffer
ThreadFinish(t) ==
    /\ tpc[t] = "done"
    /\ tpc' = [tpc EXCEPT ![t] = "idle"]
    /\ tcall' = [tcall EXCEPT ![t] = NoCall]
    /\ tlocal' = [tlocal EXCEPT ![t] = <<>>]
    /\ tret' = [tret EXCEPT ![t] = NoValue]
    /\ heap' = [heap EXCEPT ![t] = <<>>]

(***************************************************************************)
(* Calls of the bindings: an envelope is sealed, travels (intact, or with   *)
(* one bit flipped) and is opened; a decoding binding is handed the bytes  *)
(* of a peer.                                                              *)
(***************************************************************************)
KeyA == [i \in 1..KEY_LEN |-> i]
\* KeyA with one bit flipped
KeyB == [KeyA EXCEPT ![KEY_LEN] = KEY_LEN + 1]
KeyC == [i \in 1..KEY_LEN |-> 255 - i]
SealKeys == {KeyA, KeyC}
OpenKeys == {KeyA, KeyB, KeyC}
BadKeys == {<<>>, SubSeq(KeyA, 1, KEY_LEN - 1), KeyA \o <<0>>}

NonceA == [i \in 1..ENVELOPE_NONCE_LEN |-> (7 * i) % 256]
NonceB == [NonceA EXCEPT ![1] = 135]
Nonces == {NonceA, NonceB}
BadNonces == {SubSeq(NonceA, 1, ENVELOPE_NONCE_LEN - 1), NonceA \o <<0>>}

\* An inner frame is kept as the frame and the number of filler bytes that
\* follow the frame's payload bytes inside the payload; the bytes handed to
\* the binding are its encoding.  `framed` is FALSE for the empty byte string,
\* which is no frame.
Inner(frame, fill) == [framed |-> TRUE, frame |-> frame, fill |-> fill]
InnerBytes(i) ==
    IF ~i.framed THEN <<>>
    ELSE encode_v1(Frame(i.frame.frame_type, i.frame.flags, i.frame.payload \o Pattern(i.fill)), <<>>)

\* inner frames: a Ping, the ChatText "hola" of spec section 8, a chunk whose
\* length varint takes two bytes, and bytes that are no frame
SmallInners ==
    {Inner(Frame("Ping", 0, <<>>), 0), Inner(Frame("ChatText", 0, <<104, 111, 108, 97>>), 0),
     Inner(Frame("FileChunk", 0, <<>>), 130), NoInner}

\* a frame with the largest payload the bindings accept in a plain frame
BigInners == {Inner(Frame("FileChunk", 0, <<>>), ToNat(BindingMax))}

SealCall(fn, key, nonce, inner) == [fn |-> fn, key |-> key, nonce |-> nonce, inner |-> inner]

SealCalls ==
    {SealCall(fn, k, n, i) : fn \in {"encrypt_envelope_v1", "encrypt_envelope_v1_with_nonce"},
                             k \in SealKeys, n \in Nonces, i \in SmallInners} \cup
    {SealCall("encrypt_envelope_v1", k, NonceA, NoInner) : k \in BadKeys} \cup
    {SealCall("encrypt_envelope_v1_with_nonce", KeyA, n, NoInner) : n \in BadNonces}

BigSealCalls == {SealCall("encrypt_envelope_v1", KeyA, NonceA, i) : i \in BigInners}

SealWith(c) ==
    IF c.fn = "encrypt_envelope_v1" THEN encrypt_envelope_v1(c.key, c.nonce, InnerBytes(c.inner))
    ELSE encrypt_envelope_v1_with_nonce(c.key, c.nonce, InnerBytes(c.inner))

\* what the encrypting binding returned, with the length of the envelope in
\* the place of the envelope
Summary(r) == IF r.ok THEN [ok |-> TRUE, len |-> Len(r.value)] ELSE r

\* the envelope the encrypting binding returned, and the one its second call
\* returned
Envelope == SealWith(SealCall(bfn, bkey, bnonce, binner)).value
SecondEnvelope == SealWith(SealCall(bfn, bkey, bsecond, binner)).value

SealOne(c) ==
    /\ bpc = "idle"
    /\ bfn' = c.fn
    /\ bkey' = c.key
    /\ bnonce' = c.nonce
    /\ binner' = c.inner
    /\ bsealed' = Summary(SealWith(c))
    /\ bpc' = "sealed"
    /\ UNCHANGED <<bsecond, btamper, bopenkey, bbytes, bresult>>

Seal == \E c \in SealCalls : SealOne(c)
SealBig == \E c \in BigSealCalls : SealOne(c)

\* the same plaintext is sealed again under the same key, with another nonce
Reseal ==
    /\ bpc = "sealed"
    /\ bsealed.ok
    /\ bsealed.len <= 4 * MaxFlipLen
    /\ \E n \in Nonces \ {bnonce} : bsecond' = n
    /\ bpc' = "resealed"
    /\ UNCHANGED <<bfn, bkey, bnonce, binner, bsealed, btamper, bopenkey, bbytes, bresult>>

\* bit `bit` of byte b, flipped
FlipBit(b, bit) == IF NatBit(b, bit) = 1 THEN b - Pow2Tab[bit] ELSE b + Pow2Tab[bit]

\* the envelope frame with bit `bit` of payload byte `pos` flipped
Flipped(env, tm) ==
    IF tm.kind # "flip" THEN env
    ELSE [env EXCEPT ![Len(env) - Len(DecodeOuterFrame(env).frame.payload) + tm.pos] =
                FlipBit(@, tm.bit)]

\* the bytes handed to decrypt_envelope_v1 or to a decoding binding
Handed == IF bpc = "opened" THEN Flipped(Envelope, btamper) ELSE bbytes

\* every bit of a short envelope payload; of a long one, the bits at the ends
\* of the nonce, of the ciphertext and of the tag
FlipPositions(n) ==
    IF n <= MaxFlipLen THEN 1..n
    ELSE {1, ENVELOPE_NONCE_LEN, ENVELOPE_NONCE_LEN + 1, n - TAG_LEN, n - TAG_LEN + 1, n}

Tampers(env) ==
    {[kind |-> "flip", pos |-> p, bit |-> b] :
        p \in FlipPositions(Len(DecodeOuterFrame(env).frame.payload)), b \in 0..7}

\* the receiver opens the envelope as it was sent, with the sender's key or
\* with another
OpenIntact ==
    /\ bpc = "sealed"
    /\ bsealed.ok
    /\ \E k \in (IF bsealed.len <= 4 * MaxFlipLen THEN OpenKeys \cup BadKeys ELSE {bkey}) :
        /\ bopenkey' = k
        /\ bresult' = decrypt_envelope_v1(k, Envelope)
    /\ btamper' = NoTamper
    /\ bpc' = "opened"
    /\ UNCHANGED <<bfn, bkey, bnonce, binner, bsealed, bsecond, bbytes>>

\* the receiver opens, with the sender's key, the envelope with one bit of its
\* nonce or of its ciphertext flipped
OpenTampered ==
    /\ bpc = "sealed"
    /\ bsealed.ok
    /\ bsealed.len <= 4 * MaxFlipLen
    /\ \E tm \in Tampers(Envelope) :
        /\ btamper' = tm
        /\ bresult' = decrypt_envelope_v1(bkey, Flipped(Envelope, tm))
    /\ bopenkey' = bkey
    /\ bpc' = "opened"
    /\ UNCHANGED <<bfn, bkey, bnonce, binner, bsealed, bsecond, bbytes>>

\* payloads that parse under more than one payload decoder, and payloads
\* that parse under none
BindingPayloads ==
    {<<>>, <<104, 111, 108, 97>>, <<255>>, <<2, 105, 100>>, <<1, 97, 1, 98>>,
     <<1, 97, 1, 98, 1, 99, 210, 9>>, <<1, 97, 172, 2, 0, 255>>, Pattern(ENVELOPE_NONCE_LEN + TAG_LEN),
     <<255, 255, 255, 255, 15>>}

\* what a peer may hand a binding: a frame of every type around each of the
\* payloads, with a flag bit and a trailing byte; a cut frame; a frame of
\* another version; a frame that declares one byte more than the bindings
\* accept
BindingInputs ==
    {encode_v1(Frame(ft, 0, p), <<>>) : ft \in FrameTypes, p \in BindingPayloads} \cup
    {encode_v1(Frame("FileAccept", 128, <<2, 105, 100>>), <<>>) \o <<0>>,
     <<>>, <<72, 79, 1, 33, 0>>, <<72, 79, 2, 33, 0, 0>>, <<72, 79, 1, 80, 0, 129, 128, 64>>}

TypedBindings ==
    {"decode_frame_type_v1", "decode_chat_text_payload_v1", "decode_file_offer_v1",
     "decode_file_accept_id_v1", "decode_file_reject_v1", "decode_file_chunk_v1",
     "decode_file_end_id_v1"}

CallBinding(fn, bytes) ==
    CASE fn = "decode_frame_type_v1" -> decode_frame_type_v1(bytes)
      [] fn = "decode_chat_text_payload_v1" -> decode_chat_text_payload_v1(bytes)
      [] fn = "decode_file_offer_v1" -> decode_file_offer_v1(bytes)
      [] fn = "decode_file_accept_id_v1" -> decode_file_accept_id_v1(bytes)
      [] fn = "decode_file_reject_v1" -> decode_file_reject_v1(bytes)
      [] fn = "decode_file_chunk_v1" -> decode_file_chunk_v1(bytes)
      [] fn = "decode_file_end_id_v1" -> decode_file_end_id_v1(bytes)

\* a decoding binding on a peer's bytes
DecodeBinding ==
    /\ bpc = "idle"
    /\ \E fn \in TypedBindings, bytes \in BindingInputs :
        /\ bfn' = fn
        /\ bbytes' = bytes
        /\ bresult' = CallBinding(fn, bytes)
    /\ bpc' = "decoded"
    /\ UNCHANGED <<bkey, bnonce, binner, bsealed, bsecond, btamper, bopenkey>>

\* decrypt_envelope_v1 on a peer's bytes
DecryptBinding ==
    /\ bpc = "idle"
    /\ \E k \in {KeyA} \cup BadKeys, bytes \in BindingInputs :
        /\ bopenkey' = k
        /\ bbytes' = bytes
        /\ bresult' = decrypt_envelope_v1(k, bytes)
    /\ bfn' = "decrypt_envelope_v1"
    /\ bpc' = "decoded"
    /\ UNCHANGED <<bkey, bnonce, binner, bsealed, bsecond, btamper>>

BindingReset ==
    /\ bpc \in {"sealed", "resealed", "opened", "decoded"}
    /\ bpc' = "idle"
    /\ bfn' = "none"
    /\ bkey' = <<>>
    /\ bnonce' = <<>>
    /\ binner' = NoInner
    /\ bsealed' = NoPayloadResult
    /\ bsecond' = <<>>
    /\ btamper' = NoTamper
    /\ bopenkey' = <<>>
    /\ bbytes' = <<>>
    /\ bresult' = NoRan

InitBinding ==
    WasmTarget /\ VarintIdle /\ FrameIdle /\ StreamIdle /\ PayloadIdle /\ RestIdle

NextBinding ==
    \/ Seal /\ UNCHANGED notBind
    \/ Reseal /\ UNCHANGED notBind
    \/ OpenIntact /\ UNCHANGED notBind
    \/ OpenTampered /\ UNCHANGED notBind
    \/ DecodeBinding /\ UNCHANGED notBind
    \/ DecryptBinding /\ UNCHANGED notBind
    \/ BindingReset /\ UNCHANGED notBind

SpecBinding == InitBinding /\ [][NextBinding]_vars

\* the bindings, with inner frames of the largest size
NextEnvelope ==
    \/ NextBinding
    \/ SealBig /\ UNCHANGED notBind

SpecEnvelope == InitBinding /\ [][NextEnvelope]_vars

InitThread ==
    AnyTarget /\ VarintIdle /\ FrameIdle /\ StreamIdle /\ PayloadIdle /\ RestIdle

NextThread ==
    \/ \E t \in Threads : ThreadStart(t) /\ UNCHANGED notThread
    \/ \E t \in Threads : ThreadHeader(t) /\ UNCHANGED notThread
    \/ \E t \in Threads : ThreadLen(t) /\ UNCHANGED notThread
    \/ \E t \in Threads : ThreadLoop(t) /\ UNCHANGED notThread
    \/ \E t \in Threads : ThreadPayload(t) /\ UNCHANGED notThread
    \/ \E t \in Threads : ThreadRead(t) /\ UNCHANGED notThread
    \/ \E t \in Threads : ThreadFinish(t) /\ UNCHANGED notThread

SpecThread == InitThread /\ [][NextThread]_vars

(***************************************************************************)
(* wasm-core/src/acl.rs: one AccessControlList, and the grant and revoke   *)
(* calls made on it.  check_access and is_allowed read the map and change  *)
(* nothing: they are operators on the map.                                 *)
(***************************************************************************)
PermissionRole == {"Owner", "Editor", "Viewer"}
PeerPermission(user_id, role, is_revoked, since) ==
    [user_id |-> user_id, role |-> role, is_revoked |-> is_revoked, since |-> since]

\* self.permissions.entry(k).or_insert(v): the map with v at k unless k has an entry
OrInsert(map, k, v) ==
    IF k \in DOMAIN map THEN map
    ELSE [x \in DOMAIN map \cup {k} |-> IF x = k THEN v ELSE map[x]]

\* a grant that leaves the is_revoked flag of an entry as it finds it
Granted_KeepRevoked(map, user_id, role, now) ==
    [OrInsert(map, user_id, PeerPermission(user_id, role, FALSE, now))
        EXCEPT ![user_id] = [@ EXCEPT !.role = role, !.since = now]]

\* the map after grant(user_id, role) at time now
Granted(map, user_id, role, now) ==
    [OrInsert(map, user_id, PeerPermission(user_id, role, FALSE, now))
        EXCEPT ![user_id] = [@ EXCEPT !.role = role, !.is_revoked = FALSE, !.since = now]]

\* the map after revoke(user_id)
Revoked(map, user_id) ==
    IF user_id \in DOMAIN map THEN [map EXCEPT ![user_id].is_revoked = TRUE]
    ELSE map

check_access(map, user_id) ==
    IF user_id \in DOMAIN map
    THEN IF ~map[user_id].is_revoked THEN Some(map[user_id].role) ELSE None
    ELSE None

is_allowed(map, user_id) == check_access(map, user_id).some

Users == {"user_123", "user_456"}
\* readings of js_sys::Date::now(), in ticks
DateNow == {1, 2}
\* `now` of grant: the clock on wasm32, 0 elsewhere
NowOf(width) == IF width = 32 THEN DateNow ELSE {0}

AclCall(op, user_id, role) == [op |-> op, user_id |-> user_id, role |-> role]

Grant ==
    /\ Len(aclops) < MaxAclOps
    /\ \E u \in Users, r \in PermissionRole, now \in NowOf(usize) :
        /\ permissions' = Granted(permissions, u, r, now)
        /\ aclops' = Append(aclops, AclCall("grant", u, r))
    /\ UNCHANGED notAcl

Revoke ==
    /\ Len(aclops) < MaxAclOps
    /\ \E u \in Users :
        /\ permissions' = Revoked(permissions, u)
        /\ aclops' = Append(aclops, AclCall("revoke", u, "none"))
    /\ UNCHANGED notAcl

InitAcl == AnyTarget /\ VarintIdle /\ FrameIdle /\ StreamIdle /\ PayloadIdle /\ RestIdle
NextAcl == Grant \/ Revoke
SpecAcl == InitAcl /\ [][NextAcl]_vars

(***************************************************************************)
(* wasm-core/src/storage.rs: one InMemoryStorage shared by several threads. *)
(* Every call begins with self.files.lock(), which returns once no other   *)
(* thread holds the guard, and drops the guard when it returns.  list()    *)
(* walks the keys of the map one by one, in the map's own order, which is  *)
(* any order.                                                              *)
(***************************************************************************)
NotFound == [kind |-> "NotFound"]
Unit == "()"

\* files.insert(k, v)
Inserted(map, k, v) == [x \in DOMAIN map \cup {k} |-> IF x = k THEN v ELSE map[x]]
\* files.remove(k)
Removed(map, k) == [x \in DOMAIN map \ {k} |-> map[x]]
\* files.get(path).cloned().ok_or(StorageError::NotFound)
GetOr(map, k) == IF k \in DOMAIN map THEN Ok(map[k]) ELSE Err(NotFound)

Collected(seq) == {seq[i] : i \in 1..Len(seq)}

Paths == {"test.txt", "b.txt"}
Hello == <<104, 101, 108, 108, 111>>
Datas == {Hello, <<>>}
StoreCall(op, path, data) == [op |-> op, path |-> path, data |-> data]
Mutating == {StoreCall("write", p, d) : p \in Paths, d \in Datas}
                \cup {StoreCall("delete", p, <<>>) : p \in Paths}
Reading == {StoreCall("read", p, <<>>) : p \in Paths} \cup {StoreCall("list", "", <<>>)}
Done(t, call, ret) == [t |-> t, call |-> call, ret |-> ret]

\* a lock that is handed out whoever holds it
Lockable_Always(t) == TRUE

\* self.files.lock() returns: no thread holds the guard
Lockable(t) == mutex = NoOwner

\* thread t calls read, write, delete or list and gets the guard
StoreLock(t) ==
    /\ spc[t] = "idle"
    /\ Lockable(t)
    /\ \E c \in Mutating \cup Reading :
        /\ c \in Mutating => Len(mutations) < MaxStoreOps
        /\ scall' = [scall EXCEPT ![t] = c]
    /\ mutex' = t
    /\ spc' = [spc EXCEPT ![t] = "locked"]
    /\ listed' = [listed EXCEPT ![t] = <<>>]
    /\ UNCHANGED <<files, mutations, sdone>>
    /\ UNCHANGED notStore

\* the call of thread t returns ret: the guard is dropped
Returned(t, ret) ==
    /\ sdone' = Done(t, scall[t], ret)
    /\ mutex' = NoOwner
    /\ spc' = [spc EXCEPT ![t] = "idle"]
    /\ scall' = [scall EXCEPT ![t] = NoStoreCall]
    /\ listed' = [listed EXCEPT ![t] = <<>>]

StoreRead(t) ==
    /\ spc[t] = "locked"
    /\ scall[t].op = "read"
    /\ Returned(t, GetOr(files, scall[t].path))
    /\ UNCHANGED <<files, mutations>>
    /\ UNCHANGED notStore

StoreWrite(t) ==
    /\ spc[t] = "locked"
    /\ scall[t].op = "write"
    /\ files' = Inserted(files, scall[t].path, scall[t].data)
    /\ mutations' = Append(mutations, scall[t])
    /\ Returned(t, Ok(Unit))
    /\ UNCHANGED notStore

StoreDelete(t) ==
    /\ spc[t] = "locked"
    /\ scall[t].op = "delete"
    /\ files' = Removed(files, scall[t].path)
    /\ mutations' = Append(mutations, scall[t])
    /\ Returned(t, Ok(Unit))
    /\ UNCHANGED notStore

\* files.keys().cloned(): the iterator yields a key it has not yielded yet
StoreListNext(t) ==
    /\ spc[t] = "locked"
    /\ scall[t].op = "list"
    /\ \E k \in DOMAIN files \ Collected(listed[t]) :
        listed' = [listed EXCEPT ![t] = Append(listed[t], k)]
    /\ UNCHANGED <<files, mutex, spc, scall, mutations, sdone>>
    /\ UNCHANGED notStore

\* .collect(): the iterator is exhausted
StoreListEnd(t) ==
    /\ spc[t] = "locked"
    /\ scall[t].op = "list"
    /\ DOMAIN files \ Collected(listed[t]) = {}
    /\ Returned(t, Ok(listed[t]))
    /\ UNCHANGED <<files, mutations>>
    /\ UNCHANGED notStore

InitStore == AnyTarget /\ VarintIdle /\ FrameIdle /\ StreamIdle /\ PayloadIdle /\ RestIdle
NextStore ==
    \E t \in Workers :
        \/ StoreLock(t)
        \/ StoreRead(t)
        \/ StoreWrite(t)
        \/ StoreDelete(t)
        \/ StoreListNext(t)
        \/ StoreListEnd(t)
SpecStore == InitStore /\ [][NextStore]_vars

(***************************************************************************)
(* wasm-crypto/src/pake.rs: one handshake object (Spake2A, Spake2B or      *)
(* Spake2Symmetric; the three differ in the constructor they call).  The   *)
(* spake2 crate is no part of the repository.  It is modelled on a small   *)
(* scale: a message is a side byte and a 32-byte element, the element is   *)
(* the sender's random scalar blinded by the password, finish rejects a    *)
(* message of another length, of the wrong side or with an invalid         *)
(* element, and otherwise returns the shared secret.                       *)
(***************************************************************************)
SPAKE_MSG_LEN == 33
GroupOrder == 251
PakeKinds == {"Spake2A", "Spake2B", "Spake2Symmetric"}
\* the side byte of a message: 'A', 'B', 'S'
SideOf == [Spake2A |-> 65, Spake2B |-> 66, Spake2Symmetric |-> 83]
PeerSideOf == [Spake2A |-> 66, Spake2B |-> 65, Spake2Symmetric |-> 83]
Passwords == {1, 2}
Scalars == {3, 5}

Blind(pw, x) == (x + 17 * pw) % GroupOrder
Unblind(pw, e) == (e + GroupOrder - ((17 * pw) % GroupOrder)) % GroupOrder
Element(e) == <<e>> \o [i \in 1..(SPAKE_MSG_LEN - 2) |-> 0]
ValidElement(bytes) == bytes[1] < GroupOrder /\ \A i \in 2..Len(bytes) : bytes[i] = 0

\* Spake2::<Ed25519Group>::start_a / start_b / start_symmetric
Start(k, pw, x) ==
    [state |-> [side |-> k, pw |-> pw, x |-> x],
     msg |-> <<SideOf[k]>> \o Element(Blind(pw, x))]

\* Spake2::finish(self, msg2)
SpakeFinish(st, inbound_msg) ==
    IF Len(inbound_msg) # SPAKE_MSG_LEN THEN Err([kind |-> "WrongLength"])
    ELSE IF inbound_msg[1] # PeerSideOf[st.side] THEN Err([kind |-> "BadSide"])
    ELSE IF ~ValidElement(Tail(inbound_msg)) THEN Err([kind |-> "CorruptMessage"])
    ELSE Ok((st.x * Unblind(st.pw, inbound_msg[2])) % GroupOrder)

\* hkdf_32: 32 bytes expanded from the shared secret
hkdf_32(shared_key_material) == Ok([i \in 1..KEY_LEN |-> (shared_key_material + 7 * i) % 256])

\* the error of map_err(spake_err)
spake_err(e) == JsErrOf("SPAKE2 failed", e)

\* a finish that leaves the state in place
Left_InPlace(st) == st

\* self.state.take(): what is left in self.state
Left(st) == None

\* finish(inbound_msg) on a handshake object whose state is st
FinishOf(st, inbound_msg) ==
    IF ~st.some THEN JsErr("SPAKE2 state already consumed")
    ELSE IF ~SpakeFinish(st.v, inbound_msg).ok THEN spake_err(SpakeFinish(st.v, inbound_msg).err)
    ELSE hkdf_32(SpakeFinish(st.v, inbound_msg).value)

\* message()
message == outbound_msg

\* what the peer, or somebody else, may send: the peer's message under either
\* password, one of the wrong side or length, one with an invalid element
Inbounds(k) ==
    {<<PeerSideOf[k]>> \o Element(Blind(pw, y)) : pw \in Passwords, y \in Scalars}
        \cup {<<>>, <<PeerSideOf[k]>>, <<0>> \o Element(Blind(1, 3)),
              <<PeerSideOf[k]>> \o Element(255)}

\* new(password, ids)
PakeNew ==
    /\ ktype = "none"
    /\ \E k \in PakeKinds, pw \in Passwords, x \in Scalars :
        /\ ktype' = k
        /\ state' = Some(Start(k, pw, x).state)
        /\ outbound_msg' = Start(k, pw, x).msg
    /\ UNCHANGED <<finishes, shown>>
    /\ UNCHANGED notPake

PakeMessage ==
    /\ ktype # "none"
    /\ shown' = shown \cup {[msg |-> message, finished |-> finishes # <<>>]}
    /\ UNCHANGED <<ktype, state, outbound_msg, finishes>>
    /\ UNCHANGED notPake

PakeFinish ==
    /\ ktype # "none"
    /\ Len(finishes) < MaxFinishCalls
    /\ \E inbound_msg \in Inbounds(ktype) :
        finishes' = Append(finishes, [inbound |-> inbound_msg, ret |-> FinishOf(state, inbound_msg)])
    /\ state' = Left(state)
    /\ UNCHANGED <<ktype, outbound_msg, shown>>
    /\ UNCHANGED notPake

InitPake == WasmTarget /\ VarintIdle /\ FrameIdle /\ StreamIdle /\ PayloadIdle /\ RestIdle
NextPake == PakeNew \/ PakeMessage \/ PakeFinish
SpecPake == InitPake /\ [][NextPake]_vars

(***************************************************************************)
(* Claims about the varint codec                                           *)
(***************************************************************************)
MaxVarintLen(w) == IF w = 32 THEN 5 ELSE 10

\* C2: varint round trip.  Decoding the bytes that encode_u32_varint /
\* encode_u64_varint appended for v returns (v, n) with n the number of bytes
\* appended, and 1 <= n <= 5 for u32, 1 <= n <= 10 for u64.
C2_VarintRoundTrip ==
    vpc = "decoded" =>
        /\ vresult = VarintOk(value, Len(out) - base)
        /\ vresult.used >= 1
        /\ vresult.used <= MaxVarintLen(vwidth)

\* the u64 maximum has been encoded to ten bytes and decoded back
C2_Witness ==
    /\ vpc = "decoded"
    /\ vwidth = 64
    /\ value = U64Max
    /\ vresult.ok
    /\ vresult.used = 10

\* the mathematical value of the first n bytes of a varint: 7-bit group j
\* (counted from 0) weighted by 128^j, as a bit vector of 7 * MaxRawLen bits
MathValue(bytes, n) ==
    [k \in 1..(7 * MaxRawLen) |->
        IF ((k - 1) \div 7) < n THEN NatBit(bytes[((k - 1) \div 7) + 1] % 128, (k - 1) % 7) ELSE 0]

ZeroExtend(v) == [k \in 1..(7 * MaxRawLen) |-> IF k <= Len(v) THEN v[k] ELSE 0]

\* C10: whenever a varint decode succeeds, the integer returned equals the
\* mathematical value of the bytes consumed (an encoding whose value does not
\* fit the integer width is rejected with Overflow, no high bit is dropped).
C10_DecodedIsMathValue ==
    (vpc \in {"decoded", "raw"} /\ vresult.ok) =>
        ZeroExtend(vresult.value) = MathValue(vinput, vresult.used)

\* C11: over-long varints are rejected.  An input whose first 5 bytes (u32) or
\* first 10 bytes (u64) all carry the continuation bit 0x80 and which has at
\* least one more byte decodes to Overflow whatever its data bits are, and no
\* successful decode consumes more than 5 (u32) or 10 (u64) bytes.
C11_OverlongIsOverflow ==
    vpc = "raw" =>
        /\ (/\ Len(vinput) > MaxVarintLen(vwidth)
            /\ \A k \in 1..MaxVarintLen(vwidth) : vinput[k] >= 128)
                => vresult = [ok |-> FALSE, err |-> "Overflow"]
        /\ vresult.ok => vresult.used <= MaxVarintLen(vwidth)

\* five continuation bytes with all-zero data bits and a terminating zero
\* byte have been given to the u32 decoder, which answered Overflow
C11_Witness ==
    /\ vpc = "raw"
    /\ vwidth = 32
    /\ vinput = <<128, 128, 128, 128, 128, 0>>
    /\ vresult = [ok |-> FALSE, err |-> "Overflow"]

\* index (from 1) of the first byte without the continuation bit, 0 if none
FirstTerminator(bytes) ==
    IF \E k \in 1..Len(bytes) : bytes[k] < 128
    THEN CHOOSE k \in 1..Len(bytes) : bytes[k] < 128 /\ \A j \in 1..(k - 1) : bytes[j] >= 128
    ELSE 0

\* C12: a buffer that ends before a byte without the continuation bit (the
\* empty buffer, or up to 5 / 10 bytes that all have 0x80 set) decodes to
\* VarintError::UnexpectedEof; a decode that succeeds stops at the first byte
\* without the continuation bit, which it does whenever that byte is among
\* the first 5 / 10, and reports that byte's index + 1 as bytes consumed,
\* whatever bytes follow.
C12_EofOrFirstTerminator ==
    vpc = "raw" =>
        /\ (FirstTerminator(vinput) = 0 /\ Len(vinput) <= MaxVarintLen(vwidth))
                => vresult = [ok |-> FALSE, err |-> "UnexpectedEof"]
        /\ (FirstTerminator(vinput) # 0 /\ FirstTerminator(vinput) <= MaxVarintLen(vwidth))
                => (vresult.ok /\ vresult.used = FirstTerminator(vinput))
        /\ vresult.ok => vresult.used = FirstTerminator(vinput)

\* the u64 decoder has stopped at the second of four bytes although a later
\* byte also lacks the continuation bit
C12_Witness ==
    /\ vpc = "raw"
    /\ vwidth = 64
    /\ vinput = <<255, 1, 128, 0>>
    /\ vresult.ok
    /\ vresult.used = 2

(***************************************************************************)
(* Claims about the frame codec                                            *)
(***************************************************************************)
\* the first frame encoded into the buffer, and its payload length
FirstFrame == sent[1]
FirstLen == Len(sent[1].payload)

\* max_payload_len >= n, read off the bits of fmax without the decoder's test
MaxAtLeast(n) == ~FitsNat(fmax) \/ ToNat(fmax) >= n

\* decode_v1 itself was called (not the decode-and-advance loop)
SingleCall == fpc = "called" /\ how.kind \in {"wire", "prefix", "tamper", "forged"}

\* C1: frame round trip.  For every frame F and every max_payload_len >=
\* len(F.payload), decode_v1(encode_v1(F), max_payload_len) = Ok((F, n)) with n
\* the length of the encoded bytes; the empty payload and max_payload_len =
\* len(F.payload) included.
C1_FrameRoundTrip ==
    (fpc = "called" /\ how.kind = "wire" /\ how.trailer = <<>> /\ Len(sent) = 1
        /\ MaxAtLeast(FirstLen)) =>
        fresult = [ok |-> TRUE, frame |-> FirstFrame, used |-> Len(wire)]

\* a 128-byte payload (two-byte length varint) decoded with max_payload_len = 128
C1_Witness ==
    /\ fpc = "called"
    /\ how.kind = "wire"
    /\ how.trailer = <<>>
    /\ Len(sent) = 1
    /\ FirstLen = 128
    /\ fmax = FromNat(128, 32)
    /\ fresult.ok
    /\ fresult.frame = FirstFrame

\* C3: a frame with payload length L decoded with max_payload_len < L gives
\* Err(LengthTooLarge{length: L, max: max_payload_len}), with exactly those two
\* field values.
C3_LengthTooLarge ==
    (fpc = "called" /\ how.kind = "wire" /\ how.trailer = <<>> /\ Len(sent) = 1
        /\ ~MaxAtLeast(FirstLen)) =>
        fresult = [ok |-> FALSE,
                   err |-> [kind |-> "LengthTooLarge", length |-> FromNat(FirstLen, 32), max |-> fmax]]

\* the scenario of spec section 8: a 33-byte Ping payload decoded with max 32
C3_Witness ==
    /\ fpc = "called"
    /\ how.kind = "wire"
    /\ how.trailer = <<>>
    /\ Len(sent) = 1
    /\ FirstFrame.frame_type = "Ping"
    /\ FirstLen = 33
    /\ fmax = FromNat(32, 32)
    /\ ~fresult.ok
    /\ fresult.err.kind = "LengthTooLarge"

\* the length of the header (fixed bytes and length varint) of the first frame
FirstHeaderLen == ends[1] - FirstLen

\* the declared length of a forged input exceeds fmax
ForgedExceeds ==
    /\ how.len.wf
    /\ IF how.len.huge THEN fmax # U32Max ELSE ~MaxAtLeast(how.len.declared)

ForgedHeaderValid ==
    /\ Len(finput) = 5 + Len(how.len.bytes) + Len(how.tail)
    /\ finput[1] = 72
    /\ finput[2] = 79
    /\ finput[3] = 1
    /\ finput[4] \in {1, 80}

\* C4: the length bound is enforced before any payload byte is read.  An input
\* with a well-formed header whose declared payload length exceeds
\* max_payload_len gives LengthTooLarge whether or not the payload bytes are
\* in the buffer (truncated or not); every frame a successful decode_v1
\* returns has len(payload) <= max_payload_len, and a payload is produced only
\* when both the bound test and the buffer-length test have passed.
C4_BoundBeforeRead ==
    /\ (fpc = "called" /\ how.kind = "prefix" /\ how.k >= FirstHeaderLen /\ ~MaxAtLeast(FirstLen)) =>
            (~fresult.ok /\ fresult.err.kind = "LengthTooLarge"
                /\ fresult.err.length = FromNat(FirstLen, 32))
    /\ (fpc = "called" /\ how.kind = "wire" /\ ~MaxAtLeast(FirstLen)) =>
            (~fresult.ok /\ fresult.err.kind = "LengthTooLarge")
    /\ (fpc = "called" /\ how.kind = "forged" /\ ForgedHeaderValid /\ ForgedExceeds) =>
            (~fresult.ok /\ fresult.err.kind = "LengthTooLarge" /\ fresult.err.max = fmax)
    /\ (SingleCall /\ fresult.ok) =>
            /\ MaxAtLeast(Len(fresult.frame.payload))
            /\ fresult.used <= Len(finput)
            /\ Len(fresult.frame.payload) < fresult.used

\* a 129-byte payload, max_payload_len 128, the buffer cut right after the
\* header: LengthTooLarge although no payload byte is present
C4_Witness ==
    /\ fpc = "called"
    /\ how.kind = "prefix"
    /\ FirstLen = 129
    /\ how.k = FirstHeaderLen
    /\ fmax = FromNat(128, 32)
    /\ ~fresult.ok
    /\ fresult.err.kind = "LengthTooLarge"

\* C5: for every frame F, every max_payload_len >= len(F.payload) and every
\* strict prefix p of encode_v1(F), decode_v1(p, max_payload_len) returns the
\* frame-level error DecodeError::UnexpectedEof.
C5_PrefixIsUnexpectedEof ==
    (fpc = "called" /\ how.kind = "prefix" /\ MaxAtLeast(FirstLen)) =>
        fresult = [ok |-> FALSE, err |-> [kind |-> "UnexpectedEof"]]

\* C7: decode_v1 consumes exactly one frame whatever follows it:
\* decode_v1(encode_v1(F) ++ X, max) = (F, len(encode_v1(F))) for trailing bytes
\* X and for further encoded frames; decoding and advancing by the consumed
\* length over frames F1..Fk encoded back to back yields exactly F1..Fk, in
\* order, and ends with an empty remainder.
C7_ExactlyOneFrame ==
    /\ (fpc = "called" /\ how.kind = "wire" /\ MaxAtLeast(FirstLen)) =>
            fresult = [ok |-> TRUE, frame |-> FirstFrame, used |-> ends[1]]
    /\ (fpc = "called" /\ how.kind = "all") =>
            (fresult.frames = sent /\ fresult.rest = <<>>)

\* two frames back to back, the first a FileChunk, both recovered
C7_Witness ==
    /\ fpc = "called"
    /\ how.kind = "all"
    /\ Len(sent) = 2
    /\ FirstFrame.frame_type = "FileChunk"
    /\ FirstLen = 2
    /\ Len(fresult.frames) = 2
    /\ fresult.rest = <<>>

\* C8: for every input of at least 5 bytes, a first or second byte other than
\* 'H', 'O' gives BadMagic, and correct magic with a version byte v other than 1
\* gives UnsupportedVersion{version: v}.
C8_MagicAndVersion ==
    (SingleCall /\ Len(finput) >= 5) =>
        /\ (finput[1] # 72 \/ finput[2] # 79) => fresult = [ok |-> FALSE, err |-> [kind |-> "BadMagic"]]
        /\ (finput[1] = 72 /\ finput[2] = 79 /\ finput[3] # 1) =>
                fresult = [ok |-> FALSE, err |-> [kind |-> "UnsupportedVersion", version |-> finput[3]]]

\* the version byte of a valid frame changed to 255
C8_Witness ==
    /\ fpc = "called"
    /\ how.kind = "tamper"
    /\ how.at = 3
    /\ how.byte = 255
    /\ ~fresult.ok
    /\ fresult.err.kind = "UnsupportedVersion"

\* the ten tags of spec section 3, written out
KnownTags == {1, 2, 16, 32, 33, 34, 35, 36, 80, 127}
TagTable ==
    {<<1, "Ping">>, <<2, "Pong">>, <<16, "ChatText">>, <<32, "FileOffer">>, <<33, "FileAccept">>,
     <<34, "FileReject">>, <<35, "FileChunk">>, <<36, "FileEnd">>, <<80, "EncryptedEnvelope">>,
     <<127, "ProtocolError">>}

\* C9: the tag space is closed.  from_u8 returns a variant exactly for the ten
\* tags (and from_u8(t as u8) = t), None for the other 246 bytes; decode_v1 on
\* an otherwise valid header with an unmapped type byte b returns
\* UnknownFrameType{frame_type: b}, and a frame it returns has the type of its
\* tag, never a substituted one.
C9_ClosedTagSpace ==
    /\ fpc = "idle" =>
            /\ \A b \in 0..255 : (from_u8(b) # "None") <=> (b \in KnownTags)
            /\ \A p \in TagTable : from_u8(p[1]) = p[2] /\ TagOf(p[2]) = p[1]
            /\ \A t \in FrameTypes : from_u8(TagOf(t)) = t
            /\ Cardinality((0..255) \ KnownTags) = 246
    /\ (SingleCall /\ Len(finput) >= 5 /\ finput[1] = 72 /\ finput[2] = 79 /\ finput[3] = 1) =>
            /\ finput[4] \notin KnownTags =>
                    fresult = [ok |-> FALSE, err |-> [kind |-> "UnknownFrameType", frame_type |-> finput[4]]]
            /\ fresult.ok => <<finput[4], fresult.frame.frame_type>> \in TagTable

\* the type byte of a valid frame changed to 0x51, which is no tag
C9_Witness ==
    /\ fpc = "called"
    /\ how.kind = "tamper"
    /\ how.at = 4
    /\ how.byte = 81
    /\ ~fresult.ok
    /\ fresult.err.kind = "UnknownFrameType"
    /\ fresult.err.frame_type = 81

\* the bytes after the five fixed header bytes
AfterHeader == SubSeq(finput, 6, Len(finput))

HeaderValid ==
    /\ Len(finput) >= 5
    /\ finput[1] = 72
    /\ finput[2] = 79
    /\ finput[3] = 1
    /\ finput[4] \in KnownTags

\* the length varint ends among the first five bytes after the header and
\* its value fits 32 bits
LengthWellFormed ==
    /\ FirstTerminator(AfterHeader) \in 1..5
    /\ \A k \in 33..(7 * MaxRawLen) : MathValue(AfterHeader, FirstTerminator(AfterHeader))[k] = 0

Declared == MathValue(AfterHeader, FirstTerminator(AfterHeader))

\* Declared > fmax, by the top bit and then the low 31 bits
DeclaredAboveMax ==
    \/ Declared[32] > fmax[32]
    \/ Declared[32] = fmax[32] /\ ToNat(Declared) > ToNat(fmax)

\* the buffer is shorter than header + length varint + declared length
BufferShort ==
    \/ Declared[32] = 1
    \/ Declared[31] = 1
    \/ Len(finput) < 5 + FirstTerminator(AfterHeader) + ToNat(Declared)

\* C19: decode_v1 applies its checks in a fixed order and the first failing
\* one decides the error: (1) fewer than 5 bytes: UnexpectedEof, whatever the
\* bytes are; (2) wrong magic: BadMagic; (3) wrong version:
\* UnsupportedVersion; (4) unmapped type byte: UnknownFrameType; (5) malformed
\* length varint: the nested varint error; (6) declared length above
\* max_payload_len: LengthTooLarge; (7) only then a short buffer:
\* UnexpectedEof.
C19_CheckOrder ==
    SingleCall =>
        /\ Len(finput) < 5 => fresult = [ok |-> FALSE, err |-> [kind |-> "UnexpectedEof"]]
        /\ (Len(finput) >= 5 /\ (finput[1] # 72 \/ finput[2] # 79)) =>
                fresult = [ok |-> FALSE, err |-> [kind |-> "BadMagic"]]
        /\ (Len(finput) >= 5 /\ finput[1] = 72 /\ finput[2] = 79 /\ finput[3] # 1) =>
                fresult = [ok |-> FALSE, err |-> [kind |-> "UnsupportedVersion", version |-> finput[3]]]
        /\ (Len(finput) >= 5 /\ finput[1] = 72 /\ finput[2] = 79 /\ finput[3] = 1
                /\ finput[4] \notin KnownTags) =>
                fresult = [ok |-> FALSE, err |-> [kind |-> "UnknownFrameType", frame_type |-> finput[4]]]
        /\ (HeaderValid /\ FirstTerminator(AfterHeader) = 0 /\ Len(AfterHeader) <= 5) =>
                fresult = [ok |-> FALSE, err |-> [kind |-> "Varint", inner |-> "UnexpectedEof"]]
        /\ (HeaderValid /\ Len(AfterHeader) > 5 /\ \A k \in 1..5 : AfterHeader[k] >= 128) =>
                fresult = [ok |-> FALSE, err |-> [kind |-> "Varint", inner |-> "Overflow"]]
        /\ (HeaderValid /\ LengthWellFormed /\ DeclaredAboveMax) =>
                (~fresult.ok /\ fresult.err.kind = "LengthTooLarge")
        /\ (HeaderValid /\ LengthWellFormed /\ ~DeclaredAboveMax /\ BufferShort) =>
                fresult = [ok |-> FALSE, err |-> [kind |-> "UnexpectedEof"]]

\* the shortest varint of a buffer length n < 2^21, written out
ShortestVarint(n) ==
    IF n < 128 THEN <<n>>
    ELSE IF n < 16384 THEN <<128 + (n % 128), n \div 128>>
    ELSE <<128 + (n % 128), 128 + ((n \div 128) % 128), n \div 16384>>

\* the wire layout of a frame: 'H', 'O', 1, tag, flags, length, payload
Layout(f) ==
    <<72, 79, 1, (CHOOSE p \in TagTable : p[2] = f.frame_type)[1], f.flags>>
        \o ShortestVarint(Len(f.payload)) \o f.payload

\* where the i-th frame begins in `wire`
StartOf(i) == IF i = 1 THEN 1 ELSE ends[i - 1] + 1

\* the bytes a varint encoder has appended to `out`
Appended == SubSeq(out, base + 1, Len(out))

\* C20: wire layout and append-only encoding.  encode_v1(frame, out) leaves
\* the bytes already in out as they were and appends exactly
\* 5 + varint_len(len(payload)) + len(payload) bytes: 'H', 'O', the version
\* byte 1, the tag of the frame type, the flags byte, the shortest varint of
\* len(payload), the payload verbatim, and nothing else; encode_u32_varint
\* and encode_u64_varint leave the bytes already in out as they were and
\* append the shortest varint of the value.
C20_LayoutAppendOnly ==
    /\ Len(ends) = Len(sent)
    /\ \A i \in 1..Len(sent) :
            /\ SubSeq(wire, StartOf(i), ends[i]) = Layout(sent[i])
            /\ ends[i] - StartOf(i) + 1 =
                    5 + (IF Len(sent[i].payload) < 128 THEN 1 ELSE 2) + Len(sent[i].payload)
    /\ sent # <<>> => ends[Len(sent)] = Len(wire)
    /\ sent = <<>> => wire = <<>>
    /\ vpc \in {"encoded", "decoded"} =>
            /\ SubSeq(out, 1, base) = (IF base = 0 THEN <<>> ELSE <<238, 128>>)
            /\ Len(Appended) >= 1
            /\ \A k \in 1..(Len(Appended) - 1) : Appended[k] >= 128
            /\ Appended[Len(Appended)] < 128
            /\ Len(Appended) > 1 => Appended[Len(Appended)] # 0
            /\ ZeroExtend(value) = MathValue(Appended, Len(Appended))

\* a ChatText frame with flags 0xFF and a 130-byte payload has been appended
\* to a buffer that held a 33-byte Ping frame, which is still there
C20_Witness ==
    /\ Len(sent) = 2
    /\ sent[1] = [frame_type |-> "Ping", flags |-> 170, payload |-> Pattern(33)]
    /\ sent[2].frame_type = "ChatText"
    /\ SubSeq(wire, 1, 6) = <<72, 79, 1, 1, 170, 33>>
    /\ SubSeq(wire, 40, 46) = <<72, 79, 1, 16, 255, 130, 1>>
    /\ Len(wire) = 39 + 7 + 130

(***************************************************************************)
(* Claims about the typed payload codecs                                   *)
(***************************************************************************)
\* the variants of DecodeError
DecodeErrorKinds ==
    {"UnexpectedEof", "BadMagic", "UnsupportedVersion", "UnknownFrameType", "Varint",
     "LengthTooLarge", "InvalidUtf8", "BadEnvelope"}

\* C13: decoding is total.  For every byte sequence, decode_v1 and each of
\* the six payload decoders returns Ok or one of the DecodeError values; no
\* call panics or indexes a slice out of range.
C13_DecodingIsTotal ==
    /\ (ppc \in {"decoded", "raw"} /\ pkind \in PayloadKinds) =>
            (presult.ok \/ presult.err.kind \in DecodeErrorKinds)
    /\ ppc \in {"framed", "decoded"} => (pframe.ok \/ pframe.err.kind \in DecodeErrorKinds)

\* the outer frame of the typed encoder's bytes decodes to a frame of type t
\* with flags 0, and consumes all of them
OuterIs(t) ==
    /\ pframe.ok
    /\ pframe.frame.frame_type = t
    /\ pframe.frame.flags = 0
    /\ pframe.used = Len(pwire)

\* C14: FileOffer round trip.  For every offer O (any id, filename and
\* mime_type, empty ones included, any size up to u64::MAX), decode_v1 of
\* encode_file_offer_v1(O) is a FileOffer frame with flags 0 whose payload
\* decode_file_offer_payload_v1 turns back into O.
C14_FileOfferRoundTrip ==
    /\ (pkind = "FileOffer" /\ ppc \in {"framed", "decoded"}) => OuterIs("FileOffer")
    /\ (pkind = "FileOffer" /\ ppc = "decoded") => presult = [ok |-> TRUE, value |-> pvalue]

\* an offer with an empty id, a one-letter filename, the long mime type and
\* the largest size has come back
C14_Witness ==
    /\ pkind = "FileOffer"
    /\ ppc = "decoded"
    /\ pvalue.id = <<>>
    /\ pvalue.filename = <<97>>
    /\ Len(pvalue.mime_type) = LongStringLen
    /\ pvalue.size = U64Max
    /\ presult.ok
    /\ presult.value.size = U64Max

\* C15: FileChunk round trip.  For every id, chunk_index up to u32::MAX and
\* data (empty, zero bytes, 0x80 bytes, bytes that are no UTF-8), the frame
\* of encode_file_chunk_v1 decodes to a FileChunk frame whose payload
\* decode_file_chunk_payload_v1 turns back into (id, chunk_index, data); the
\* data is the bytes of the payload after the chunk-index varint, all of them.
C15_FileChunkRoundTrip ==
    /\ (pkind = "FileChunk" /\ ppc \in {"framed", "decoded"}) => OuterIs("FileChunk")
    /\ (pkind = "FileChunk" /\ ppc = "decoded") =>
            /\ presult = [ok |-> TRUE, value |-> pvalue]
            /\ presult.value.data =
                    SubSeq(ppayload, Len(ppayload) - Len(pvalue.data) + 1, Len(ppayload))
            /\ Len(ppayload) - Len(pvalue.data) >= 2

\* a chunk with index u32::MAX whose data starts 0xFF 0xFE 0x00 has come back
C15_Witness ==
    /\ pkind = "FileChunk"
    /\ ppc = "decoded"
    /\ pvalue.chunk_index = U32Max
    /\ pvalue.data = <<255, 254, 0, 128, 195>>
    /\ presult.ok
    /\ presult.value.data = <<255, 254, 0, 128, 195>>

\* C16: string-only payloads round trip.  decode_file_accept_payload_v1
\* returns the id given to encode_file_accept_v1, decode_file_end_payload_v1
\* the id given to encode_file_end_v1, decode_file_reject_payload_v1 the
\* (id, reason) given to encode_file_reject_v1, empty strings included and
\* the two fields neither swapped nor merged; the outer frame has the type of
\* the encoder.
C16_StringPayloadRoundTrip ==
    /\ (pkind \in {"FileAccept", "FileEnd", "FileReject"} /\ ppc \in {"framed", "decoded"}) =>
            OuterIs(pkind)
    /\ (pkind \in {"FileAccept", "FileEnd", "FileReject"} /\ ppc = "decoded") =>
            presult = [ok |-> TRUE, value |-> pvalue]

\* a reject with an empty id and the reason "a" has come back as it was
C16_Witness ==
    /\ pkind = "FileReject"
    /\ ppc = "decoded"
    /\ pvalue = [id |-> <<>>, reason |-> <<97>>]
    /\ presult.ok
    /\ presult.value.id = <<>>
    /\ presult.value.reason = <<97>>

\* C17: the EncryptedEnvelope payload codec.  decode_encrypted_envelope_payload_v1(p)
\* is BadEnvelope exactly when len(p) < 24; otherwise it is (p[0..24], p[24..]),
\* with an empty ciphertext for a payload of exactly 24 bytes; and the payload
\* of encode_encrypted_envelope_v1(nonce, ct) decodes back to (nonce, ct).
C17_EnvelopePayload ==
    /\ (pkind = "EncryptedEnvelope" /\ ppc \in {"raw", "decoded"}) =>
            /\ (Len(ppayload) < 24) <=> (presult = [ok |-> FALSE, err |-> [kind |-> "BadEnvelope"]])
            /\ (Len(ppayload) >= 24) <=> presult.ok
            /\ presult.ok =>
                    /\ presult.value.nonce = SubSeq(ppayload, 1, 24)
                    /\ presult.value.ciphertext = SubSeq(ppayload, 25, Len(ppayload))
                    /\ presult.value.nonce \o presult.value.ciphertext = ppayload
            /\ Len(ppayload) = 24 => (presult.ok /\ presult.value.ciphertext = <<>>)
    /\ (pkind = "EncryptedEnvelope" /\ ppc \in {"framed", "decoded"}) => OuterIs("EncryptedEnvelope")
    /\ (pkind = "EncryptedEnvelope" /\ ppc = "decoded") => presult = [ok |-> TRUE, value |-> pvalue]

\* a peer's payload of exactly 24 bytes has been split into a nonce and an
\* empty ciphertext
C17_Witness ==
    /\ pkind = "EncryptedEnvelope"
    /\ ppc = "raw"
    /\ Len(ppayload) = 24
    /\ presult.ok
    /\ presult.value.nonce = ppayload
    /\ presult.value.ciphertext = <<>>

(***************************************************************************)
(* Claims about streaming use of the decoder                               *)
(***************************************************************************)
IsPrefixOf(a, b) == Len(a) <= Len(b) /\ a = SubSeq(b, 1, Len(a))

\* C6: a receiver that appends arriving bytes of back-to-back valid frames in
\* arbitrary chunks, calls decode_v1 after each arrival, waits on UnexpectedEof,
\* advances on success and drops the connection on any other error never drops
\* the connection, and delivers every frame in order and unchanged once all
\* bytes have arrived (max_payload_len >= every payload length).
C6_StreamNeverDrops ==
    /\ conn = "open"
    /\ IsPrefixOf(delivered, sframes)
    /\ arrived = Len(swire) => (delivered = sframes /\ rbuf = <<>>)

(***************************************************************************)
(* Claims about length-prefixed strings                                    *)
(***************************************************************************)
\* the payload starts with a length varint of at most 5 bytes whose value
\* fits 32 bits
LengthPrefixed ==
    /\ FirstTerminator(ppayload) \in 1..5
    /\ \A k \in 33..(7 * MaxRawLen) : MathValue(ppayload, FirstTerminator(ppayload))[k] = 0

\* the length it declares
DeclaredLen == MathValue(ppayload, FirstTerminator(ppayload))

\* the declared length exceeds the bytes that follow the length varint
DeclaredExceedsRest ==
    \/ ~FitsNat(DeclaredLen)
    \/ ToNat(DeclaredLen) > Len(ppayload) - FirstTerminator(ppayload)

\* C18: decoding a length-prefixed string is bounded by the buffer.  Whenever
\* the declared length exceeds the bytes that remain after the length varint,
\* decode_string, and each typed payload decoder whose first field it is,
\* returns DecodeError::UnexpectedEof and reads nothing past the end; when
\* decode_string succeeds it has consumed varint length + declared length.
C18_StringBoundedByBuffer ==
    /\ (ppc = "raw" /\ pkind \in {"String", "FileOffer", "FileAccept", "FileReject", "FileChunk",
                                   "FileEnd"}
            /\ LengthPrefixed /\ DeclaredExceedsRest) =>
                presult = [ok |-> FALSE, err |-> [kind |-> "UnexpectedEof"]]
    /\ (ppc = "raw" /\ pkind = "String" /\ presult.ok) =>
            /\ LengthPrefixed
            /\ presult.used = FirstTerminator(ppayload) + ToNat(DeclaredLen)
            /\ presult.used <= Len(ppayload)
            /\ presult.value = SubSeq(ppayload, FirstTerminator(ppayload) + 1, presult.used)

(***************************************************************************)
(* Claims about concurrent calls                                           *)
(***************************************************************************)
\* what a call returns, and what it leaves in its buffer, when it runs alone
AloneBuffer(c) ==
    CASE c.fn = "encode_v1" -> encode_v1(c.frame, c.prefill)
      [] c.fn = "encode_u32_varint" -> encode_u32_varint(c.v, c.prefill)
      [] c.fn = "encode_u64_varint" -> encode_u64_varint(c.v, c.prefill)
      [] OTHER -> c.input

AloneReturn(c) ==
    CASE c.fn = "decode_v1" -> decode_v1(c.input, c.max)
      [] c.fn = "decode_u32_varint" -> decode_u32_varint(c.input)
      [] c.fn = "decode_u64_varint" -> decode_u64_varint(c.input)
      [] OTHER -> NoValue

\* C21: codec calls are independent.  Whatever the interleaving of the
\* statements of concurrent encode and decode calls, each on its caller's own
\* buffers, a call that has returned has returned what it returns when it
\* runs alone and has left in its buffer what it leaves when it runs alone;
\* two calls with equal inputs have equal outcomes.
C21_CallsAreIndependent ==
    /\ \A t \in Threads :
          tpc[t] = "done" =>
            /\ heap[t] = AloneBuffer(tcall[t])
            /\ tret[t] = AloneReturn(tcall[t])
    /\ \A t, u \in Threads :
          (tpc[t] = "done" /\ tpc[u] = "done" /\ tcall[t] = tcall[u]) =>
            (heap[t] = heap[u] /\ tret[t] = tret[u])

\* two calls of encode_v1 on equal inputs have both returned, after their
\* statements interleaved
C21_Witness ==
    /\ tpc[1] = "done" /\ tpc[2] = "done"
    /\ tcall[1].fn = "encode_v1"
    /\ tcall[1] = tcall[2]
    /\ Len(heap[1]) > 130

(***************************************************************************)
(* Claims about the bindings                                               *)
(***************************************************************************)
\* the envelope came out of an encrypting binding and went to the receiver
EnvelopeOpened == bpc = "opened" /\ bsealed.ok

\* C22: envelope decryption fails explicitly.  decrypt_envelope_v1 returns an
\* error, and no plaintext, for an envelope of encrypt_envelope_v1 opened with
\* another 32-byte key or with one bit of its nonce or ciphertext flipped;
\* whatever it returns as plaintext is the plaintext that was sealed; two
\* encryptions of one plaintext under one key with distinct nonces are
\* different envelope bytes.
C22_DecryptFailsExplicitly ==
    /\ (EnvelopeOpened /\ Len(bopenkey) = KEY_LEN /\ bopenkey # bkey) =>
            (~bresult.res.ok /\ bresult.res.err.kind = "js")
    /\ (EnvelopeOpened /\ btamper.kind = "flip") =>
            (~bresult.res.ok /\ bresult.res.err.kind = "js")
    /\ (EnvelopeOpened /\ bresult.res.ok) => bresult.res.value = InnerBytes(binner)
    /\ bpc = "resealed" => SecondEnvelope # Envelope

\* the cipher was handed the "hola" envelope with a bit of its ciphertext
\* flipped, and the binding returned "decrypt failed"
C22_Witness ==
    /\ EnvelopeOpened
    /\ binner.frame.frame_type = "ChatText"
    /\ btamper.kind = "flip"
    /\ btamper.pos > ENVELOPE_NONCE_LEN
    /\ bresult.decrypted
    /\ bresult.res = JsErr("decrypt failed")

\* C25: envelope composition round trip.  For every 32-byte key and every
\* inner frame the bindings accept as a plain frame (decode_frame_type_v1
\* succeeds), decrypt_envelope_v1(key, e) = inner for the envelope e of
\* encrypt_envelope_v1 or encrypt_envelope_v1_with_nonce, and the payload of e
\* (nonce, ciphertext, tag) is within the 1 MiB bound of the decoding bindings.
C25_EnvelopeRoundTrip ==
    /\ (bpc = "sealed" /\ bsealed.ok /\ decode_frame_type_v1(InnerBytes(binner)).res.ok) =>
            decode_frame_type_v1(Envelope).res.ok
    /\ (EnvelopeOpened /\ btamper = NoTamper /\ bopenkey = bkey
            /\ decode_frame_type_v1(InnerBytes(binner)).res.ok) =>
            bresult.res = Ok(InnerBytes(binner))

\* the string length field at the head of the payload of the FileAccept frame
\* handed to decode_file_accept_id_v1
AcceptIdLength == decode_u32_varint(DecodeOuterFrame(Handed).frame.payload)

\* C27: offset arithmetic does not wrap on wasm32.  For a FileAccept frame
\* handed to decode_file_accept_id_v1 on a 32-bit target, header_len +
\* payload_len in decode_v1 and start + len in decode_string stay within
\* usize, and the binding returns (a value or an error) instead of trapping.
C27_OffsetsDoNotWrap ==
    (/\ usize = 32
     /\ bpc = "decoded"
     /\ bfn = "decode_file_accept_id_v1"
     /\ DecodeOuterFrame(Handed).ok
     /\ DecodeOuterFrame(Handed).frame.frame_type = "FileAccept"
     /\ AcceptIdLength.ok) =>
        /\ ~UsizeAdd(DecodeOuterFrame(Handed).used - Len(DecodeOuterFrame(Handed).frame.payload),
                     FromNat(Len(DecodeOuterFrame(Handed).frame.payload), 32)).wrapped
        /\ ~UsizeAdd(AcceptIdLength.used, AcceptIdLength.value).wrapped
        /\ (bresult.res.ok \/ bresult.res.err.kind = "js")

\* the frame type each typed binding expects, and the error it returns for
\* another
ExpectedType ==
    [decode_chat_text_payload_v1 |-> "ChatText", decode_file_offer_v1 |-> "FileOffer",
     decode_file_accept_id_v1 |-> "FileAccept", decode_file_reject_v1 |-> "FileReject",
     decode_file_chunk_v1 |-> "FileChunk", decode_file_end_id_v1 |-> "FileEnd",
     decrypt_envelope_v1 |-> "EncryptedEnvelope"]

TypeMismatch ==
    /\ bpc = "decoded"
    /\ bfn \in DOMAIN ExpectedType
    /\ bfn = "decrypt_envelope_v1" => Len(bopenkey) = KEY_LEN
    /\ DecodeOuterFrame(Handed).ok
    /\ DecodeOuterFrame(Handed).frame.frame_type # ExpectedType[bfn]

\* C29: binding-level dispatch is type-checked before payload parsing.  A
\* typed binding handed a frame of another type than its own returns its
\* "not <Type>" error without running its payload decoder; decrypt_envelope_v1
\* calls the cipher for EncryptedEnvelope frames only, and returns "key must be
\* 32 bytes" without decoding anything when the key has another length.
C29_TypeCheckedDispatch ==
    /\ TypeMismatch =>
        /\ bresult.res = JsErr("not " \o ExpectedType[bfn])
        /\ ~bresult.parsed
        /\ ~bresult.decrypted
    /\ (bpc \in {"opened", "decoded"} /\ bresult.decrypted) =>
        (DecodeOuterFrame(Handed).ok
            /\ DecodeOuterFrame(Handed).frame.frame_type = "EncryptedEnvelope")
    /\ (bpc \in {"opened", "decoded"} /\ bfn \notin TypedBindings /\ Len(bopenkey) # KEY_LEN) =>
        (bresult.res = JsErr("key must be 32 bytes") /\ ~bresult.decoded)

\* decode_file_accept_id_v1 was handed a FileEnd frame whose payload is a
\* well-formed id, and returned "not FileAccept"
C29_Witness ==
    /\ TypeMismatch
    /\ bfn = "decode_file_accept_id_v1"
    /\ DecodeOuterFrame(Handed).frame.frame_type = "FileEnd"
    /\ decode_file_accept_payload_v1(DecodeOuterFrame(Handed).frame.payload).ok
    /\ bresult.res = JsErr("not FileAccept")

(***************************************************************************)
(* Claims about the access control list                                    *)
(***************************************************************************)
\* the positions of the calls naming u, and the last of them
CallsNaming(u) == {i \in 1..Len(aclops) : aclops[i].user_id = u}
LastNaming(u) == aclops[CHOOSE i \in CallsNaming(u) : \A j \in CallsNaming(u) : j <= i]

\* C23: after any sequence of grant and revoke calls, check_access(u) is
\* Some(r) exactly when the last call naming u was grant(u, r), and None when
\* u was never named or was revoked since; is_allowed(u) is true exactly when
\* check_access(u) is Some; a user never granted has no entry; calls naming
\* other users do not count for u.
C23_AccessFollowsLastCall ==
    \A u \in Users :
        /\ check_access(permissions, u) =
                (IF CallsNaming(u) # {} /\ LastNaming(u).op = "grant"
                 THEN Some(LastNaming(u).role) ELSE None)
        /\ is_allowed(permissions, u) <=> check_access(permissions, u) # None
        /\ (\A i \in CallsNaming(u) : aclops[i].op = "revoke") => u \notin DOMAIN permissions

\* user_123 was granted Viewer, revoked and granted Editor, and has Editor
\* access; user_456 was never named and has no entry
C23_Witness ==
    /\ aclops = <<AclCall("grant", "user_123", "Viewer"), AclCall("revoke", "user_123", "none"),
                  AclCall("grant", "user_123", "Editor")>>
    /\ check_access(permissions, "user_123") = Some("Editor")
    /\ is_allowed(permissions, "user_123")
    /\ ~is_allowed(permissions, "user_456")
    /\ DOMAIN permissions = {"user_123"}

(***************************************************************************)
(* Claims about the in-memory storage                                      *)
(***************************************************************************)
\* the positions of the returned write and delete calls on path p
MutationsOf(p) == {i \in 1..Len(mutations) : mutations[i].path = p}
LastMutationOf(p) == mutations[CHOOSE i \in MutationsOf(p) : \A j \in MutationsOf(p) : j <= i]
\* what a read of p has to return after the calls that returned so far
Readable(p) == MutationsOf(p) # {} /\ LastMutationOf(p).op = "write"
ExpectedRead(p) == IF Readable(p) THEN Ok(LastMutationOf(p).data) ELSE Err(NotFound)

\* C24: in any interleaving of the calls of several threads on one
\* InMemoryStorage, read(p) returns the data of the last write to p unless a
\* delete of p followed it, and Err(NotFound) otherwise; list() returns the
\* paths a read succeeds for, each once; write and delete return Ok.
C24_StorageFollowsLastWrite ==
    /\ \A p \in Paths : mutex = NoOwner => GetOr(files, p) = ExpectedRead(p)
    /\ sdone.call.op = "read" => sdone.ret = ExpectedRead(sdone.call.path)
    /\ sdone.call.op = "list" =>
        /\ sdone.ret.ok
        /\ Collected(sdone.ret.value) = {p \in Paths : Readable(p)}
        /\ Len(sdone.ret.value) = Cardinality(Collected(sdone.ret.value))
    /\ sdone.call.op \in {"write", "delete"} => sdone.ret = Ok(Unit)

\* one thread wrote test.txt, the other overwrote it, deleted b.txt (absent)
\* and listed: the list is test.txt alone
C24_Witness ==
    /\ mutations = <<StoreCall("write", "test.txt", Hello), StoreCall("write", "test.txt", <<>>),
                     StoreCall("delete", "b.txt", <<>>)>>
    /\ sdone = Done("w2", StoreCall("list", "", <<>>), Ok(<<"test.txt">>))
    /\ GetOr(files, "test.txt") = Ok(<<>>)

(***************************************************************************)
(* Claims about the PAKE handshake                                         *)
(***************************************************************************)
ConsumedError == JsErr("SPAKE2 state already consumed")

\* C30: the handshake state is single-use.  The first finish consumes the
\* state whether it succeeds or fails; every later finish returns "SPAKE2
\* state already consumed", so at most one session key is derived per object
\* and the first is the only one that can derive it; message() returns the
\* same message before and after finish.
C30_StateIsSingleUse ==
    /\ \A i \in 2..Len(finishes) : finishes[i].ret = ConsumedError
    /\ finishes # <<>> => (state = None /\ finishes[1].ret # ConsumedError)
    /\ Cardinality({i \in 1..Len(finishes) : finishes[i].ret.ok}) <= 1
    /\ (ktype # "none" /\ finishes = <<>>) => state.some
    /\ \A s \in shown : s.msg = outbound_msg
    /\ \A s1, s2 \in shown : s1.msg = s2.msg

\* a Spake2A object was handed a message with an invalid element, then the
\* peer's good message: the first finish failed, the second found the state
\* consumed; message() was called before and after
C30_Witness ==
    /\ ktype = "Spake2A"
    /\ Len(finishes) = 2
    /\ finishes[1].ret = spake_err([kind |-> "CorruptMessage"])
    /\ Len(finishes[2].inbound) = SPAKE_MSG_LEN
    /\ finishes[2].inbound[1] = PeerSideOf[ktype]
    /\ ValidElement(Tail(finishes[2].inbound))
    /\ finishes[2].ret = ConsumedError
    /\ Cardinality(shown) = 2

(***************************************************************************)
(* Claims about non-canonical encodings                                    *)
(***************************************************************************)
\* a varint that ends in a zero group after at least one continuation byte:
\* the same value has a shorter encoding
IsPadded(bytes) == Len(bytes) >= 2 /\ bytes[Len(bytes)] = 0
\* the raw varint at the head of the decoder's input
RawHead == SubSeq(vinput, 1, FirstTerminator(vinput))
\* the bytes the varint encoder appended
Emitted == SubSeq(out, base + 1, Len(out))
\* the bytes of the hand-made frame decode_v1 consumed, and the frame encoded again
Consumed == SubSeq(finput, 1, fresult.used)
Reencoded == encode_v1(fresult.frame, <<>>)

\* C26: non-canonical varints are accepted.  A padded encoding of v that fits
\* 5 bytes (u32) or 10 bytes (u64) decodes to (v, padded length), and v has a
\* shorter encoding that decodes to v as well; a frame whose length varint is
\* padded decodes to the frame its shortest form decodes to, and encoding that
\* frame does not give the padded bytes back; the encoders emit no trailing
\* zero group except the single byte 00.
C26_PaddedVarintsAccepted ==
    /\ (vpc = "raw" /\ FirstTerminator(vinput) <= MaxVarintLen(vwidth) /\ IsPadded(RawHead)) =>
        /\ vresult.ok
        /\ vresult.used = Len(RawHead)
        /\ ZeroExtend(vresult.value) = MathValue(vinput, Len(RawHead))
        /\ Len(EncodeVarintLoop(vresult.value, <<>>)) < Len(RawHead)
        /\ DecodeVarintLoop(EncodeVarintLoop(vresult.value, <<>>), 1, Zero(vwidth), 0, vwidth).value
                = vresult.value
    /\ (fpc = "called" /\ how.kind = "forged" /\ fresult.ok) =>
        /\ decode_v1(Reencoded, fmax).ok
        /\ decode_v1(Reencoded, fmax).frame = fresult.frame
        /\ IsPadded(how.len.bytes) <=> Reencoded # Consumed
    /\ vpc \in {"encoded", "decoded"} => ~IsPadded(Emitted)

\* 80 00 decoded as u64 to (0, 2)
C26_Witness ==
    /\ vpc = "raw"
    /\ vwidth = 64
    /\ vinput = <<128, 0>>
    /\ vresult = VarintOk(Zero(64), 2)

(***************************************************************************)
(* Claims about bytes behind a payload's last field                        *)
(***************************************************************************)
\* the payload the encoder made, and the bytes put behind it
OwnPayload == pframe.frame.payload
Trailing == SubSeq(ppayload, Len(OwnPayload) + 1, Len(ppayload))

\* C28: the decoders of FileAccept, FileEnd, FileReject and FileOffer return
\* for a valid payload followed by further bytes what they return for the
\* payload alone; decode_file_chunk_payload_v1 and
\* decode_encrypted_envelope_payload_v1 return the further bytes as the end
\* of the chunk data and of the ciphertext.
C28_TrailingBytesIgnored ==
    ppc = "trailed" =>
        /\ pkind \in {"FileAccept", "FileEnd", "FileReject", "FileOffer"} =>
            /\ presult = DecodePayloadOf(pkind, OwnPayload)
            /\ presult = Ok(pvalue)
        /\ pkind = "FileChunk" =>
            presult = Ok(FileChunk(pvalue.id, pvalue.chunk_index, pvalue.data \o Trailing))
        /\ pkind = "EncryptedEnvelope" =>
            presult = Ok([nonce |-> pvalue.nonce, ciphertext |-> pvalue.ciphertext \o Trailing])

\* the payload of FileAccept "a" followed by the bytes 01 61, themselves a
\* well-formed string, decoded to the id "a"
C28_Witness ==
    /\ ppc = "trailed"
    /\ pkind = "FileAccept"
    /\ ppayload = <<1, 97, 1, 97>>
    /\ Trailing = <<1, 97>>
    /\ presult = Ok([id |-> <<97>>])

====
